---------------------------- MODULE Spec2Model ----------------------------
(***************************************************************************)
(* perfectPitch (src/src/main.ts): the live pitch loop (RMS gate,          *)
(* autocorrelation estimate, EMA smoother, stability engine), the capture  *)
(* session (initAudio / stopAudio), the frame recorder and the batch       *)
(* analysis of a recording (melody quantizer, karaoke points, vibrato).    *)
(*                                                                         *)
(* Numbers are fixed point: frequencies in Hz, confidences and the         *)
(* smoothing factor in 1/10000, RMS in 1/100000, cents in cents, times in  *)
(* hundredths of a second.                                                 *)
(* A nullable value is the empty sequence (null) or a one-element          *)
(* sequence holding the value.                                             *)
(***************************************************************************)
EXTENDS Integers, Sequences, FiniteSets, TLC

None == << >>
Some(x) == << x >>
IsNull(o) == o = None
Val(o) == o[1]

(***************************************************************************)
(* Program constants (src/src/main.ts:58-73).                              *)
(***************************************************************************)
MIN_FREQUENCY == 55
MAX_FREQUENCY == 1000
\* line 1619: the sample rate taken when there is no audio context
DEFAULT_SAMPLE_RATE == 44100
DEFAULT_MIN_CONFIDENCE == 2500
DEFAULT_MIN_RMS == 800
DEFAULT_SMOOTHING == 1800
DEFAULT_STABILITY_HOLD_FRAMES == 4
MIC_SENSITIVITY_DEFAULT == 50
TRACKING_SPEED_DEFAULT == 40
STABILITY_WINDOW == 7
STABILITY_SILENCE_FRAMES == 10
STABILITY_HANGOVER_FRAMES == 6
TARGET_START_MIDI == 48
TARGET_END_MIDI == 83
RECORD_SAMPLE_EVERY == 4
MELODY_STEP_SECONDS == 10
LANE_GAP_BREAK_SECONDS == 25
InitialTargetMidi == 60

(***************************************************************************)
(* Bounds of the model.                                                    *)
(***************************************************************************)
\* longest run of accepted ticks that is followed
MaxAcceptRun == 4
\* longest run of rejected ticks that is followed
MaxRejectRun == 11
\* number of initAudio calls that are followed
MaxSessions == 2
\* number of frames one recording may hold
MaxFrames == 1
\* MediaRecorder stop events that may wait for their onstop callback
MaxStopEvents == 1
\* longest of the short frame buffers handed to the batch functions
MaxBatchLen == 3
\* most events of a melody that is rendered into frames and quantized again
MaxMelodyEvents == 2
\* iterations of the quantizer's loop that are followed
MaxIterations == 4
\* samples in the buffer the pitch estimator is handed (the program's analyser has 2048)
MaxSamples == 6
\* accepted ticks in a row SpecNotes follows: the window fills and the longest hold ends
MaxNoteRun == 7
\* number of frames one recording may hold in SpecTape
MaxTapeFrames == 2
\* number of runs of playMelody, playReferenceTone and loadPianoSoundfont suspended at once
MaxPlayRuns == 2

\* frequencies autoCorrelate reports (Hz): A3 and A#3
FrequencyInputs == {220, 233}
\* confidences autoCorrelate reports with a frequency (1/10000)
ConfidenceInputs == {1000, 9000}
\* RMS values of the analysed frames (1/100000)
RmsInputs == {0, 500, 1000, 5000}
\* the frequency and the confidence autoCorrelate reports to SpecApp
AppFrequencyInputs == {220}
AppConfidenceInputs == {2600}
\* readings of the recorder's clock, performance.now() - recordStartTime
ClockInputs == {0, 1}
\* positions of the microphone-sensitivity slider
SensitivityInputs == {0, 50}
\* positions of the tracking-speed slider
SpeedInputs == {40, 100}
\* entries of the target-note select
TargetInputs == {57, 60}
\* every whole position of a slider
SliderPositions == 0 .. 100
\* frequencies autoCorrelate reports to SpecNotes (Hz): a leap of half an octave
NoteFrequencyInputs == {205, 285}
\* positions of the tracking-speed slider that give holds of 6, 5, 4, 3 and 2 frames
NoteSpeedInputs == {0, 25, 40, 70, 100}

(***************************************************************************)
(* Arithmetic helpers.                                                     *)
(***************************************************************************)
\* n / d rounded to the nearest integer, halves up (Math.round)
RoundDiv(n, d) == (2 * n + d) \div (2 * d)

clamp(value, min, max) ==
  LET lower == IF value > min THEN value ELSE min
  IN  IF lower < max THEN lower ELSE max

\* 1200 * log2(f / 440) rounded to the cent, for f from 200 Hz to 290 Hz
LogTable ==
  << -1365, -1356, -1348, -1339, -1331, -1322, -1314, -1305, -1297, -1289, -1281, -1272, -1264,
     -1256, -1248, -1240, -1232, -1224, -1216, -1208, -1200, -1192, -1184, -1177, -1169, -1161,
     -1153, -1146, -1138, -1131, -1123, -1116, -1108, -1101, -1093, -1086, -1078, -1071, -1064,
     -1057, -1049, -1042, -1035, -1028, -1021, -1014, -1007, -1000, -993, -986, -979, -972,
     -965, -958, -951, -944, -938, -931, -924, -917, -911, -904, -898, -891, -884,
     -878, -871, -865, -858, -852, -845, -839, -833, -826, -820, -814, -807, -801,
     -795, -789, -782, -776, -770, -764, -758, -752, -746, -740, -734, -728, -722 >>
Log2Cents(f) == LogTable[f - 199]

\* hzToMidi in hundredths of a semitone: 69 + 12 * log2(f / 440)
hzToMidi(frequency) == 6900 + Log2Cents(frequency)

\* Math.round(hzToMidi(frequency))
RoundMidi(frequency) == RoundDiv(hzToMidi(frequency), 100)

\* 440 * 2^((midi - 69) / 12) to the Hz, for the notes G3..D4
midiToFrequency(midi) ==
  CASE midi = 55 -> 196
    [] midi = 56 -> 208
    [] midi = 57 -> 220
    [] midi = 58 -> 233
    [] midi = 59 -> 247
    [] midi = 60 -> 262
    [] midi = 61 -> 277
    [] midi = 62 -> 294

\* midiToNote: << index into NOTE_NAMES, octave >>
midiToNote(midi) == << midi % 12, (midi \div 12) - 1 >>

\* 1200 * Math.log2(frequency / targetFrequency)
CentsBetween(frequency, targetFrequency) ==
  Log2Cents(frequency) - Log2Cents(targetFrequency)

(***************************************************************************)
(* median (src/src/main.ts:1114-1122).                                     *)
(***************************************************************************)
RECURSIVE InsertSorted(_, _)
InsertSorted(x, s) ==
  IF s = << >> THEN << x >>
  ELSE IF x <= Head(s) THEN << x >> \o s
       ELSE << Head(s) >> \o InsertSorted(x, Tail(s))

RECURSIVE SortAscending(_)
SortAscending(s) ==
  IF s = << >> THEN << >> ELSE InsertSorted(Head(s), SortAscending(Tail(s)))

median(values) ==
  IF Len(values) = 0 THEN None
  ELSE LET sorted == SortAscending(values)
           mid == Len(sorted) \div 2
       IN  IF Len(sorted) % 2 = 0
             THEN Some(RoundDiv(sorted[mid] + sorted[mid + 1], 2))
             ELSE Some(sorted[mid + 1])


(***************************************************************************)
(* State (src/src/main.ts:395-451).                                        *)
(***************************************************************************)
VARIABLES
  isRunning,            \* a capture session is live
  controlsDisabled,     \* setControls(true): start / retry / record buttons and sliders disabled
  initPending,          \* "none", or who awaits initAudio: "button" or "record"
  animationId,          \* null, or the pending requestAnimationFrame(renderWaveform)
  mediaStream,          \* TRUE while a microphone stream is held
  retryHidden,          \* retryButton.hidden: setStatus shows the button in the error state only
  smoothedFrequency,    \* EMA of the accepted frequencies, or null
  lastConfidence,
  targetMidi,
  frequencyWindow,
  candidateMidi,
  candidateFrames,
  stableMidi,
  silenceFrames,
  lastStableMetrics,
  micSensitivity,
  trackingSpeed,
  minRms,
  minConfidence,
  pitchSmoothing,
  stabilityHoldFrames,
  isRecording,
  recordedFrames,
  recordFrameCounter,
  shown,                \* arguments of the last updatePitchDisplay call
  lastTick,             \* what the last run of renderWaveform was given and handed on
  acceptRun,            \* accepted ticks since the last rejected one
  rejectRun,            \* rejected ticks since the last accepted one
  agreeMidi,            \* note the window median rounded to on the last accepted tick
  agreeRun,             \* accepted ticks in a row on which the median rounded to agreeMidi
  sessions,             \* initAudio calls so far
  melodySequence,       \* what renderReview last left: the quantized melody
  stopEvents,           \* MediaRecorder stop events queued: for each, whether recordedFrames
                        \* still is the buffer of the recording it stops
  batchFrames,          \* a frame buffer handed to the batch functions
  batchStep,            \* the step handed to buildMelodySequence
  batchMelody,          \* null, or the melody the buffer was rendered from
  batchCall,            \* the last call of a batch function and what it returned
  quantizer,            \* a run of buildMelodySequence taken one loop iteration at a time:
                        \* where it stands and its locals
  floatData,            \* null, or the samples the analyser last filled in
  sampleRate,           \* the audio context's sample rate (Hz)
  isMelodyPlaying,
  isToneLoading,
  pianoInstrument,      \* TRUE once the soundfont instrument is loaded
  forceMediaTone,
  melodyStopTimer,      \* TRUE while the timeout that stops the melody is pending
  toneAudio,            \* the tone audio element: whether onended holds the melody's
                        \* callback, and "idle", "starting" (play() pending) or "playing"
  melodyDisabled,       \* playMelodyButton.disabled
  initRuns,             \* the runs of initAudio that await the microphone: their callers
  playRuns,             \* the runs of playMelody, playReferenceTone and loadPianoSoundfont
                        \* that are suspended: the function and the await they stand at
  liveLoops,            \* requestAnimationFrame(renderWaveform) callbacks pending
  liveStreams           \* microphone streams whose tracks were not stopped

engineVars ==
  << frequencyWindow, candidateMidi, candidateFrames, stableMidi, silenceFrames, lastStableMetrics >>
tuningVars ==
  << micSensitivity, trackingSpeed, minRms, minConfidence, pitchSmoothing, stabilityHoldFrames >>
sessionVars ==
  << isRunning, controlsDisabled, initPending, animationId, mediaStream, retryHidden >>
recorderVars == << isRecording, recordedFrames, recordFrameCounter >>
vars ==
  << isRunning, controlsDisabled, initPending, animationId, mediaStream, retryHidden,
     smoothedFrequency, lastConfidence, targetMidi, frequencyWindow, candidateMidi, candidateFrames, stableMidi,
     silenceFrames, lastStableMetrics, micSensitivity, trackingSpeed, minRms, minConfidence,
     pitchSmoothing, stabilityHoldFrames, isRecording, recordedFrames, recordFrameCounter,
     shown, lastTick, acceptRun, rejectRun, agreeMidi, agreeRun, sessions,
     melodySequence, stopEvents, batchFrames, batchStep, batchMelody, batchCall,
     quantizer, floatData, sampleRate, isMelodyPlaying, isToneLoading, pianoInstrument,
     forceMediaTone, melodyStopTimer, toneAudio, melodyDisabled, initRuns, playRuns,
     liveLoops, liveStreams >>
reviewVars == << melodySequence, stopEvents >>
estimateVars == << floatData, sampleRate >>
playVars ==
  << isMelodyPlaying, isToneLoading, pianoInstrument, forceMediaTone, melodyStopTimer,
     toneAudio, melodyDisabled, initRuns, playRuns, liveLoops, liveStreams >>
bufferVars == << batchFrames, batchStep, batchMelody, batchCall, quantizer, estimateVars >>
batchVars == << bufferVars, playVars >>
runVars == << lastTick, acceptRun, rejectRun, agreeMidi, agreeRun >>

(***************************************************************************)
(* applyInputTuning (src/src/main.ts:1082-1095).                           *)
(***************************************************************************)
\* 0.012 - sensitivityRatio * 0.008
TunedMinRms(sensitivity) == 1200 - 8 * clamp(sensitivity, 0, 100)

\* clamp(DEFAULT_MIN_CONFIDENCE + (0.5 - sensitivityRatio) * 0.08, 0.22, 0.28)
TunedMinConfidence(sensitivity) ==
  clamp(DEFAULT_MIN_CONFIDENCE + 400 - 8 * clamp(sensitivity, 0, 100), 2200, 2800)

\* 0.1 + speedRatio * 0.22
TunedSmoothing(speed) == 1000 + 22 * clamp(speed, 0, 100)

\* a hold that shortens by five frames over the slider's range
TunedHoldFramesSteep(speed) == RoundDiv(600 - 5 * clamp(speed, 0, 100), 100)

\* Math.round(6 - speedRatio * 4)
TunedHoldFrames(speed) == RoundDiv(600 - 4 * clamp(speed, 0, 100), 100)

(***************************************************************************)
(* deriveStableMetrics (src/src/main.ts:1469-1516).                        *)
(***************************************************************************)
\* line 1470: the tick is rejected
isRejected(frequency, confidence) == IsNull(frequency) \/ confidence < minConfidence

\* the silence threshold taken one frame late
silenceReachedLate(silence) == silence > STABILITY_SILENCE_FRAMES

\* line 1475: the run of rejected ticks is a true silence
silenceReached(silence) == silence >= STABILITY_SILENCE_FRAMES

\* the hangover ending one frame early
hangoverHoldsShort(previous, silence) ==
  ~IsNull(previous) /\ silence < STABILITY_HANGOVER_FRAMES

\* line 1477: the previous note is re-emitted
hangoverHolds(previous, silence) ==
  ~IsNull(previous) /\ silence <= STABILITY_HANGOVER_FRAMES

\* lines 1484-1487: push, bounded to STABILITY_WINDOW
pushWindow(window, frequency) ==
  LET pushed == Append(window, frequency)
  IN  IF Len(pushed) > STABILITY_WINDOW THEN Tail(pushed) ELSE pushed

\* the count never restarting on a new candidate
countCandidateOn(previousCandidate, previousFrames, candidate) == previousFrames + 1

\* lines 1492-1497: frames the candidate has been seen for
countCandidate(previousCandidate, previousFrames, candidate) ==
  IF previousCandidate = Some(candidate) THEN previousFrames + 1 ELSE 1

\* a lock without hysteresis
commitStableAtOnce(stable, candidate, frames) == Some(candidate)

\* the hysteresis committing one frame early
commitStableEarly(stable, candidate, frames) ==
  IF frames >= stabilityHoldFrames - 1 THEN Some(candidate) ELSE stable

\* lines 1499-1501: the hysteresis
commitStable(stable, candidate, frames) ==
  IF frames >= stabilityHoldFrames THEN Some(candidate) ELSE stable

\* the emitted note always taking the drifting median
stableFrequencyOfMedian(stable, candidate, medianFrequency) == medianFrequency

\* line 1505: frequency of the emitted note
stableFrequencyOf(stable, candidate, medianFrequency) ==
  IF stable = candidate THEN medianFrequency ELSE midiToFrequency(stable)

\* lines 1506-1507: cents against the selected target
centsFromTargetOf(frequency, target) ==
  CentsBetween(frequency, midiToFrequency(target))

\* lines 1509-1515: the PitchMetrics object
PitchMetrics(frequency, confidence, midi, target) ==
  [ frequency |-> frequency,
    confidence |-> confidence,
    midi |-> midi,
    note |-> midiToNote(midi),
    centsFromTarget |-> centsFromTargetOf(frequency, target) ]

\* lines 1470-1481: a rejected tick
deriveRejected ==
  LET silence == silenceFrames + 1
  IN  [ frequencyWindow |-> << >>,
        candidateMidi |-> None,
        candidateFrames |-> 0,
        silenceFrames |-> silence,
        stableMidi |-> IF silenceReached(silence) THEN None ELSE stableMidi,
        result |-> IF silenceReached(silence) THEN None
                   ELSE IF hangoverHolds(lastStableMetrics, silence)
                          THEN lastStableMetrics ELSE None ]

\* lines 1483-1515: an accepted tick
deriveAccepted(frequency, confidence) ==
  LET window == pushWindow(frequencyWindow, frequency)
      medianFrequency == Val(median(window))
      candidate == RoundMidi(medianFrequency)
      frames == countCandidate(candidateMidi, candidateFrames, candidate)
      stable == commitStable(stableMidi, candidate, frames)
  IN  [ frequencyWindow |-> window,
        candidateMidi |-> Some(candidate),
        candidateFrames |-> frames,
        silenceFrames |-> 0,
        stableMidi |-> stable,
        result |-> IF IsNull(stable) THEN None
                   ELSE Some(PitchMetrics(
                          stableFrequencyOf(Val(stable), candidate, medianFrequency),
                          confidence, Val(stable), targetMidi)) ]

deriveStableMetrics(frequency, confidence) ==
  IF isRejected(frequency, confidence)
    THEN deriveRejected
    ELSE deriveAccepted(Val(frequency), confidence)


(***************************************************************************)
(* recordFrame (src/src/main.ts:1571-1587).                                *)
(***************************************************************************)
\* a frame that never carries the deviation in cents
RecordedFrameWithoutCents(t, metricsData, confidence) ==
  [ t |-> t,
    frequency |-> IF IsNull(metricsData) THEN None ELSE Some(Val(metricsData).frequency),
    midi |-> IF IsNull(metricsData) THEN None ELSE Some(Val(metricsData).midi),
    confidence |-> confidence,
    cents |-> None,
    note |-> IF IsNull(metricsData) THEN None ELSE Some(Val(metricsData).note) ]

\* lines 1579-1586: the frame pushed for the note handed to recordFrame
RecordedFrame(t, metricsData, confidence) ==
  [ t |-> t,
    frequency |-> IF IsNull(metricsData) THEN None ELSE Some(Val(metricsData).frequency),
    midi |-> IF IsNull(metricsData) THEN None ELSE Some(Val(metricsData).midi),
    confidence |-> confidence,
    cents |-> IF IsNull(metricsData) THEN None ELSE Some(Val(metricsData).centsFromTarget),
    note |-> IF IsNull(metricsData) THEN None ELSE Some(Val(metricsData).note) ]

\* line 1574: every RECORD_SAMPLE_EVERY-th call is sampled
isSampled(counter) == counter % RECORD_SAMPLE_EVERY = 0

\* timestamps performance.now() can give the next frame: the clock never runs backwards
NextTimes(frames) ==
  IF Len(frames) = 0 THEN ClockInputs
  ELSE { t \in ClockInputs : t >= frames[Len(frames)].t }

\* a frame pushed whether a recording is on or not
recordFrameAlways(recording, frames, counter, t, metricsData, confidence) ==
  IF ~isSampled(counter + 1) THEN [frames |-> frames, counter |-> counter + 1]
  ELSE [frames |-> Append(frames, RecordedFrame(t, metricsData, confidence)),
        counter |-> counter + 1]

\* recordFrame run on a recorder state; t is performance.now() - recordStartTime
recordFrame(recording, frames, counter, t, metricsData, confidence) ==
  IF ~recording THEN [frames |-> frames, counter |-> counter]
  ELSE IF ~isSampled(counter + 1) THEN [frames |-> frames, counter |-> counter + 1]
  ELSE [frames |-> Append(frames, RecordedFrame(t, metricsData, confidence)),
        counter |-> counter + 1]

\* the model follows a recording until it holds maxFrames frames
RecorderHasRoomFor(recording, frames, maxFrames) == ~recording \/ Len(frames) < maxFrames

\* the model follows a recording until it holds MaxFrames frames
RecorderHasRoom(recording, frames) == RecorderHasRoomFor(recording, frames, MaxFrames)

(***************************************************************************)
(* renderWaveform (src/src/main.ts:1589-1636).                             *)
(***************************************************************************)
\* what autoCorrelate may report for a frame, given the frequencies and confidences it
\* can find: a null frequency comes with confidence 0
EstimatesOf(frequencies, confidences) ==
  { [frequency |-> None, confidence |-> 0] } \cup
  { [frequency |-> Some(f), confidence |-> c] : f \in frequencies, c \in confidences }

\* frames the analyser may deliver: an all-zero frame has no variance, hence no estimate
FramesOf(frequencies, confidences) ==
  { fr \in [rms : RmsInputs, estimate : EstimatesOf(frequencies, confidences)] :
      fr.rms = 0 => IsNull(fr.estimate.frequency) }

\* line 1609: the RMS gate
isGated(rms) == rms < minRms

\* line 1611: the smoother on a gated tick
gatedSmoothedFrequency(smoothed) == None

\* lines 1622-1625: the smoother on a tick that passed the gate
smoothFrequency(smoothed, frequency, confidence) ==
  IF ~IsNull(frequency) /\ confidence >= minConfidence
    THEN IF IsNull(smoothed) THEN frequency
         ELSE Some(Val(smoothed)
                   + RoundDiv(pitchSmoothing * (Val(frequency) - Val(smoothed)), 10000))
    ELSE smoothed

\* a gated tick displaying and recording what the engine returned
gatedNoteHeld(derived) == derived

\* lines 1613-1614: the note displayed and recorded on a gated tick
gatedNote(derived) == None

\* lines 1627-1630: the note displayed and recorded on a tick that passed the gate
passedNote(derived) == derived

\* how the tick classifies the frame
GateOf(fr) ==
  IF isGated(fr.rms) THEN "gated"
  ELSE IF isRejected(smoothFrequency(smoothedFrequency, fr.estimate.frequency,
                                     fr.estimate.confidence),
                     fr.estimate.confidence)
         THEN "rejected" ELSE "accepted"

\* one run of renderWaveform on the frame fr: the values it leaves behind;
\* t is the reading of the recorder's clock
renderWaveform(fr, t) ==
  LET gated == isGated(fr.rms)
      smoothed == IF gated THEN gatedSmoothedFrequency(smoothedFrequency)
                  ELSE smoothFrequency(smoothedFrequency, fr.estimate.frequency,
                                       fr.estimate.confidence)
      fedFrequency == IF gated THEN None ELSE smoothed
      fedConfidence == IF gated THEN 0 ELSE fr.estimate.confidence
      derived == deriveStableMetrics(fedFrequency, fedConfidence)
      note == IF gated THEN gatedNote(derived.result) ELSE passedNote(derived.result)
      rec == recordFrame(isRecording, recordedFrames, recordFrameCounter, t, note,
                         fedConfidence)
  IN  [ lastConfidence |-> fedConfidence,
        smoothedFrequency |-> smoothed,
        derived |-> derived,
        shown |-> [metrics |-> note, confidence |-> fedConfidence],
        recordedFrames |-> rec.frames,
        recordFrameCounter |-> rec.counter,
        lastTick |-> [ gate |-> GateOf(fr),
                       first |-> FALSE,
                       pitched |-> ~IsNull(fr.estimate.frequency),
                       fedFrequency |-> fedFrequency,
                       fedConfidence |-> fedConfidence,
                       result |-> derived.result,
                       note |-> note,
                       appended |-> Len(rec.frames) > Len(recordedFrames) ] ]

\* the model follows runs of accepted ticks up to maxAccept, runs of rejected ticks up to
\* maxReject and recordings up to maxFrames frames
TickInRuns(fr, maxAccept, maxReject, maxFrames) ==
  /\ IF GateOf(fr) = "accepted" THEN acceptRun < maxAccept ELSE rejectRun < maxReject
  /\ RecorderHasRoomFor(isRecording, recordedFrames, maxFrames)

\* the model follows runs of ticks up to its bounds
TickInBounds(fr) == TickInRuns(fr, MaxAcceptRun, MaxRejectRun, MaxFrames)

\* clock readings that matter to the tick: only a sampled tick of a recording reads the clock
ClockReadings ==
  IF isRecording /\ isSampled(recordFrameCounter + 1)
    THEN NextTimes(recordedFrames) ELSE {0}

\* the runs of ticks as seen from outside the engine, after a tick on fr
RunsAfter(fr) ==
  LET accepted == GateOf(fr) = "accepted"
      fed == smoothFrequency(smoothedFrequency, fr.estimate.frequency, fr.estimate.confidence)
      heard == RoundMidi(Val(median(pushWindow(frequencyWindow, Val(fed)))))
  IN  /\ acceptRun' = IF accepted THEN acceptRun + 1 ELSE 0
      /\ rejectRun' = IF accepted THEN 0 ELSE rejectRun + 1
      /\ agreeMidi' = IF accepted THEN Some(heard) ELSE None
      /\ agreeRun' = IF ~accepted THEN 0
                     ELSE IF agreeMidi = Some(heard) THEN agreeRun + 1 ELSE 1

\* the engine, smoother and display after a run of renderWaveform that left r
TickEffect(r) ==
  /\ lastConfidence' = r.lastConfidence
  /\ smoothedFrequency' = r.smoothedFrequency
  /\ frequencyWindow' = r.derived.frequencyWindow
  /\ candidateMidi' = r.derived.candidateMidi
  /\ candidateFrames' = r.derived.candidateFrames
  /\ stableMidi' = r.derived.stableMidi
  /\ silenceFrames' = r.derived.silenceFrames
  /\ lastStableMetrics' = r.derived.result
  /\ shown' = r.shown
  /\ animationId' = Some(0)

\* lastTick before any tick has run
NoTick ==
  [ gate |-> "none", first |-> FALSE,
    pitched |-> FALSE,
    fedFrequency |-> None, fedConfidence |-> 0, result |-> None, note |-> None,
    appended |-> FALSE ]

\* the requestAnimationFrame callback, on a frame of F, within runs of maxAccept accepted
\* and maxReject rejected ticks and recordings of maxFrames frames
TickWithin(F, maxAccept, maxReject, maxFrames) ==
  /\ ~IsNull(animationId)
  /\ \E fr \in F : \E t \in ClockReadings :
       /\ TickInRuns(fr, maxAccept, maxReject, maxFrames)
       /\ TickEffect(renderWaveform(fr, t))
       /\ RunsAfter(fr)
       /\ lastTick' = renderWaveform(fr, t).lastTick
       /\ recordedFrames' = renderWaveform(fr, t).recordedFrames
       /\ recordFrameCounter' = renderWaveform(fr, t).recordFrameCounter
  /\ UNCHANGED << isRunning, controlsDisabled, initPending, mediaStream, retryHidden,
                  targetMidi, tuningVars, isRecording, sessions, reviewVars, batchVars >>

\* the requestAnimationFrame callback, on a frame of F
TickOn(F) == TickWithin(F, MaxAcceptRun, MaxRejectRun, MaxFrames)

(***************************************************************************)
(* Capture session: stopStream, initAudio, handleError, stopAudio          *)
(* (src/src/main.ts:608-620, 1770-1861), the start / retry / record        *)
(* buttons (src/src/main.ts:2211-2221, 2267-2273), startRecording and      *)
(* stopRecording (src/src/main.ts:2082-2158).                              *)
(***************************************************************************)
\* initAudio up to its first await: setStatus('working'), setControls(true), stopStream,
\* reset of the smoother
initAudioBegin(caller) ==
  /\ sessions < MaxSessions
  /\ sessions' = sessions + 1
  /\ retryHidden' = TRUE
  /\ controlsDisabled' = TRUE
  /\ animationId' = None
  /\ mediaStream' = FALSE
  /\ smoothedFrequency' = None
  /\ initPending' = caller
  /\ UNCHANGED << isRunning, lastConfidence, targetMidi, engineVars, tuningVars,
                  recorderVars, shown, runVars, reviewVars, batchVars >>

\* stopRecording (lines 2150-2158) stops the MediaRecorder: its stop event is queued
stopRecorder == Append(stopEvents, TRUE)

\* startRecording replaces recordedFrames (line 2104): the buffers of the recordings whose
\* stop events still wait are gone
buffersReplaced == [ i \in 1 .. Len(stopEvents) |-> FALSE ]

\* the model follows a stop while fewer than MaxStopEvents stop events wait
StopInBounds == isRecording => Len(stopEvents) < MaxStopEvents

\* stopAudio (lines 1843-1861)
stopAudio ==
  /\ StopInBounds
  /\ stopEvents' = IF isRecording THEN stopRecorder ELSE stopEvents
  /\ isRecording' = FALSE
  /\ animationId' = None
  /\ mediaStream' = FALSE
  /\ isRunning' = FALSE
  /\ smoothedFrequency' = None
  /\ shown' = [metrics |-> None, confidence |-> 0]
  /\ retryHidden' = TRUE
  /\ controlsDisabled' = FALSE
  /\ UNCHANGED << initPending, lastConfidence, targetMidi, engineVars, tuningVars,
                  recordedFrames, recordFrameCounter, runVars, sessions, melodySequence,
                  batchVars >>

\* startButton click (lines 2211-2217)
StartButtonClick ==
  /\ ~controlsDisabled
  /\ IF isRunning THEN stopAudio ELSE initAudioBegin("button")

\* retryButton click (lines 2215-2217): the button shows in the error state only
RetryButtonClick ==
  /\ ~retryHidden
  /\ ~controlsDisabled
  /\ initAudioBegin("button")

\* initAudio resumes with no AudioContext (lines 1799-1802): ensureAudioContext has set
\* the error status (line 694); setControls(false), return false
InitAudioNoContext ==
  /\ initPending # "none"
  /\ initPending' = "none"
  /\ retryHidden' = FALSE
  /\ controlsDisabled' = FALSE
  /\ UNCHANGED << isRunning, animationId, mediaStream, smoothedFrequency, lastConfidence,
                  targetMidi, engineVars, tuningVars, recorderVars, shown, runVars, sessions,
                  reviewVars, batchVars >>

\* initAudio throws (lines 1837-1840): handleError
InitAudioError ==
  /\ initPending # "none"
  /\ initPending' = "none"
  /\ isRunning' = FALSE
  /\ retryHidden' = FALSE
  /\ controlsDisabled' = FALSE
  /\ UNCHANGED << animationId, mediaStream, smoothedFrequency, lastConfidence,
                  targetMidi, engineVars, tuningVars, recorderVars, shown, runVars, sessions,
                  reviewVars, batchVars >>

\* initAudio gets the microphone (lines 1804-1836): the first renderWaveform runs at once,
\* on a frame of F; a startRecording that awaited it then goes on (lines 2093-2147)
InitAudioSuccessOn(F) ==
  /\ initPending # "none"
  /\ initPending' = "none"
  /\ mediaStream' = TRUE
  /\ isRunning' = TRUE
  /\ retryHidden' = TRUE
  /\ controlsDisabled' = FALSE
  /\ \E fr \in F : \E t \in ClockReadings :
       /\ TickInBounds(fr)
       /\ TickEffect(renderWaveform(fr, t))
       /\ RunsAfter(fr)
       /\ lastTick' = [renderWaveform(fr, t).lastTick EXCEPT !.first = TRUE]
       /\ IF initPending = "record"
            THEN /\ isRecording' = TRUE
                 /\ recordedFrames' = << >>
                 /\ melodySequence' = << >>
                 /\ stopEvents' = buffersReplaced
                 /\ recordFrameCounter' = 0
            ELSE /\ recordedFrames' = renderWaveform(fr, t).recordedFrames
                 /\ recordFrameCounter' = renderWaveform(fr, t).recordFrameCounter
                 /\ UNCHANGED << isRecording, melodySequence, stopEvents >>
  /\ UNCHANGED << targetMidi, tuningVars, sessions, batchVars >>

\* recordButton click (lines 2267-2273): stopRecording, or startRecording up to its await
RecordButtonClick ==
  /\ ~controlsDisabled
  /\ IF isRecording
       THEN /\ StopInBounds
            /\ stopEvents' = stopRecorder
            /\ isRecording' = FALSE
            /\ controlsDisabled' = FALSE
            /\ UNCHANGED << isRunning, initPending, animationId, mediaStream, retryHidden,
                            smoothedFrequency, lastConfidence, targetMidi, engineVars,
                            tuningVars, recordedFrames, recordFrameCounter, shown, runVars,
                            sessions, melodySequence, batchVars >>
       ELSE IF ~isRunning
         THEN initAudioBegin("record")
         ELSE /\ IF mediaStream
                   THEN /\ isRecording' = TRUE
                        /\ recordedFrames' = << >>
                        /\ melodySequence' = << >>
                        /\ stopEvents' = buffersReplaced
                        /\ recordFrameCounter' = 0
                        /\ UNCHANGED retryHidden
                   ELSE /\ retryHidden' = FALSE
                        /\ UNCHANGED << recorderVars, melodySequence, stopEvents >>
              /\ UNCHANGED << isRunning, controlsDisabled, initPending, animationId,
                              mediaStream, smoothedFrequency, lastConfidence, targetMidi,
                              engineVars, tuningVars, shown, runVars, sessions, batchVars >>

(***************************************************************************)
(* Sliders and target select (src/src/main.ts:2257-2267, 2304-2319).       *)
(***************************************************************************)
\* micSensitivitySlider input, to a position of S: readSliderPercent, applyInputTuning
MicSensitivityInputOn(S) ==
  /\ ~controlsDisabled
  /\ \E value \in S :
       /\ micSensitivity' = clamp(value, 0, 100)
       /\ minRms' = TunedMinRms(micSensitivity')
       /\ minConfidence' = TunedMinConfidence(micSensitivity')
  /\ pitchSmoothing' = TunedSmoothing(trackingSpeed)
  /\ stabilityHoldFrames' = TunedHoldFrames(trackingSpeed)
  /\ UNCHANGED << sessionVars, smoothedFrequency, lastConfidence, targetMidi, engineVars,
                  trackingSpeed, recorderVars, shown, runVars, sessions, reviewVars,
                  batchVars >>

\* trackingSpeedSlider input, to a position of S: readSliderPercent, applyInputTuning
TrackingSpeedInputOn(S) ==
  /\ ~controlsDisabled
  /\ \E value \in S :
       /\ trackingSpeed' = clamp(value, 0, 100)
       /\ pitchSmoothing' = TunedSmoothing(trackingSpeed')
       /\ stabilityHoldFrames' = TunedHoldFrames(trackingSpeed')
  /\ minRms' = TunedMinRms(micSensitivity)
  /\ minConfidence' = TunedMinConfidence(micSensitivity)
  /\ UNCHANGED << sessionVars, smoothedFrequency, lastConfidence, targetMidi, engineVars,
                  micSensitivity, recorderVars, shown, runVars, sessions, reviewVars,
                  batchVars >>

\* lines 2311-2317: the note the target change displays
retargeted(metricsData, target) ==
  IF IsNull(metricsData) THEN None
  ELSE Some([Val(metricsData) EXCEPT
               !.centsFromTarget = centsFromTargetOf(Val(metricsData).frequency, target)])

\* targetSelect change, to an entry of S (lines 2304-2319)
TargetSelectChangeOn(S) ==
  /\ \E value \in S :
       /\ targetMidi' = value
       /\ shown' = [metrics |-> retargeted(lastStableMetrics, value),
                    confidence |-> lastConfidence]
  /\ UNCHANGED << sessionVars, smoothedFrequency, lastConfidence, engineVars, tuningVars,
                  recorderVars, runVars, sessions, reviewVars, batchVars >>

(***************************************************************************)
(* buildMelodySequence (src/src/main.ts:1160-1219).  A frame is the record *)
(* recordFrame pushes; a MelodyEvent is [midi, duration].                  *)
(***************************************************************************)
\* line 1162, the comparator (a, b) => a.t - b.t: a goes first when it is negative
earlierFrame(a, b) == a.t < b.t

\* Array.prototype.sort is stable, as SortSeq is: frames of equal t keep the order they
\* came in
sortByTime(frames) == SortSeq(frames, earlierFrame)

\* the frames walked in the order they came in
framesAsGiven(frames) == frames

\* frames.sort(...): the buffer itself is sorted
sortInPlace(frames) == [buffer |-> sortByTime(frames), sorted |-> sortByTime(frames)]

\* line 1162: [...frames].sort(...) sorts a copy and leaves the buffer as it is
sortCopy(frames) == [buffer |-> frames, sorted |-> sortByTime(frames)]

\* line 1162: sorted
sortedFrames(frames) == sortCopy(frames).sorted

\* a frame on the end of a bucket counted in it
bucketAtClosed(sorted, t, stepSeconds) ==
  LET inBucket(frame) == (t = 0 \/ frame.t >= t) /\ frame.t <= t + stepSeconds
  IN  SelectSeq(sorted, inBucket)

\* lines 1170-1176: the frames the walk takes for the bucket starting at t; the index
\* never goes back, so a frame earlier than every bucket falls into the first one
bucketAt(sorted, t, stepSeconds) ==
  LET inBucket(frame) == (t = 0 \/ frame.t >= t) /\ frame.t < t + stepSeconds
  IN  SelectSeq(sorted, inBucket)

\* lines 1178-1181: the frames of a bucket that vote
validFrames(bucket) ==
  LET isValid(frame) ==
        /\ frame.confidence >= minConfidence
        /\ ~IsNull(frame.midi) \/ ~IsNull(frame.frequency)
  IN  SelectSeq(bucket, isValid)

\* lines 1186-1187, one frame: the Map keeps its keys in the order of their first insertion
countFrame(counts, frame) ==
  IF IsNull(frame.midi) THEN counts
  ELSE IF \E i \in 1 .. Len(counts) : counts[i].note = Val(frame.midi)
    THEN [ i \in 1 .. Len(counts) |->
             IF counts[i].note = Val(frame.midi)
               THEN [counts[i] EXCEPT !.count = @ + 1] ELSE counts[i] ]
    ELSE Append(counts, [note |-> Val(frame.midi), count |-> 1])

RECURSIVE countMidis(_, _)
\* lines 1184-1188: the votes of the valid frames
countMidis(valid, counts) ==
  IF valid = << >> THEN counts
  ELSE countMidis(Tail(valid), countFrame(counts, Head(valid)))

\* a later note taking the lead on an equal count
beatsOrTies(count, bestCount) == count >= bestCount

\* line 1193: a note takes the lead on a strictly higher count
beatsBest(count, bestCount) == count > bestCount

RECURSIVE pickBest(_, _, _)
\* lines 1190-1198: counts.forEach in insertion order
pickBest(counts, bestMidi, bestCount) ==
  IF counts = << >> THEN bestMidi
  ELSE IF beatsBest(Head(counts).count, bestCount)
         THEN pickBest(Tail(counts), Head(counts).note, Head(counts).count)
         ELSE pickBest(Tail(counts), bestMidi, bestCount)

RECURSIVE sumFrequencies(_)
\* line 1200: the reduce, a missing frequency counting as 0
sumFrequencies(valid) ==
  IF valid = << >> THEN 0
  ELSE (IF IsNull(Head(valid).frequency) THEN 0 ELSE Val(Head(valid).frequency))
       + sumFrequencies(Tail(valid))

\* the fallback taking the first valid frame's frequency
firstFrequencyMidi(valid) == RoundMidi(Val(valid[1].frequency))

\* lines 1200-1201: the fallback on the mean frequency (to the Hz)
meanFrequencyMidi(valid) == RoundMidi(RoundDiv(sumFrequencies(valid), Len(valid)))

\* lines 1178-1203: the midi of a bucket
bucketMidi(bucket) ==
  LET valid == validFrames(bucket)
      counts == countMidis(valid, << >>)
  IN  IF Len(valid) = 0 THEN None
      ELSE IF Len(counts) > 0 THEN Some(pickBest(counts, 0, -1))
      ELSE Some(meanFrequencyMidi(valid))

\* the walk stopping one bucket early
bucketCountShort(duration, stepSeconds) == duration \div stepSeconds

\* line 1169: the loop runs for t = 0, stepSeconds, ... while t <= duration
bucketCount(duration, stepSeconds) == duration \div stepSeconds + 1

\* lines 1169-1206: one event per bucket
bucketEvents(sorted, duration, stepSeconds) ==
  [ k \in 1 .. bucketCount(duration, stepSeconds) |->
      [ midi |-> bucketMidi(bucketAt(sorted, (k - 1) * stepSeconds, stepSeconds)),
        duration |-> stepSeconds ] ]

\* every bucket kept as an event of its own
appendEvent(compressed, event) == Append(compressed, event)

\* a merged bucket adding nothing to the event's duration
mergeEventKeepDuration(compressed, event) ==
  IF Len(compressed) > 0 /\ compressed[Len(compressed)].midi = event.midi
    THEN compressed
    ELSE Append(compressed, event)

\* lines 1210-1215: an event of the same midi as the last one lengthens it
mergeEvent(compressed, event) ==
  IF Len(compressed) > 0 /\ compressed[Len(compressed)].midi = event.midi
    THEN [compressed EXCEPT ![Len(compressed)].duration = @ + event.duration]
    ELSE Append(compressed, event)

RECURSIVE compressEvents(_, _)
\* lines 1208-1216: the run-length compression (the test has the merged events
\* evaluated before the rest is walked; merging leaves at least one event)
compressEvents(compressed, events) ==
  IF events = << >> THEN compressed
  ELSE LET merged == mergeEvent(compressed, Head(events))
       IN  IF merged = << >> THEN merged ELSE compressEvents(merged, Tail(events))

buildMelodySequence(frames, stepSeconds) ==
  IF Len(frames) = 0 THEN << >>
  ELSE LET sorted == sortedFrames(frames)
           duration == sorted[Len(sorted)].t
       IN  IF duration <= 0 THEN << >>
           ELSE compressEvents(<< >>, bucketEvents(sorted, duration, stepSeconds))

(***************************************************************************)
(* buildKaraokePoints (src/src/main.ts:1221-1227).                         *)
(***************************************************************************)
\* every frame with a midi, whatever its confidence
framesWithMidi(frames) ==
  LET hasMidi(frame) == ~IsNull(frame.midi)
  IN  SelectSeq(frames, hasMidi)

\* line 1224: the frames that give a point
karaokeFrames(frames) ==
  LET hasPoint(frame) == ~IsNull(frame.midi) /\ frame.confidence >= minConfidence
  IN  SelectSeq(frames, hasPoint)

buildKaraokePoints(frames) ==
  IF Len(frames) = 0 THEN << >>
  ELSE LET kept == karaokeFrames(frames)
       IN  sortByTime([ i \in 1 .. Len(kept) |-> [t |-> kept[i].t, midi |-> Val(kept[i].midi)] ])

(***************************************************************************)
(* renderKaraokeBar (src/src/main.ts:1354-1456): the path of the lane, in  *)
(* karaoke mode on a lane that has a size.  A command of the path is kept  *)
(* with the point it goes to instead of the point's x and y.               *)
(***************************************************************************)
\* lines 1397-1402: the points in or near the viewport
visiblePoints(points, viewport) ==
  LET isVisible(point) ==
        /\ point.t >= viewport.startSec - LANE_GAP_BREAK_SECONDS
        /\ point.t <= viewport.endSec + LANE_GAP_BREAK_SECONDS
  IN  SelectSeq(points, isVisible)

\* lines 1413-1424: 'M x y' for the first visible point and for one that comes more than
\* LANE_GAP_BREAK_SECONDS after the one before it, 'L x y' for any other
pathParts(visible) ==
  [ i \in 1 .. Len(visible) |->
      [ command |-> IF i = 1 \/ visible[i].t - visible[i - 1].t > LANE_GAP_BREAK_SECONDS
                      THEN "M" ELSE "L",
        t |-> visible[i].t,
        midi |-> visible[i].midi ] ]

\* lines 1366, 1388-1424: the path drawn for the frames; no point, no path
lanePath(frames, viewport) == pathParts(visiblePoints(buildKaraokePoints(frames), viewport))

(***************************************************************************)
(* analyzeVibrato, average and standardDeviation (src/src/main.ts:         *)
(* 1109-1112, 1124-1158).  With n samples of sum total, a deviation from   *)
(* the mean is kept times n: n * value - total.                            *)
(***************************************************************************)
\* line 1133: the cents of the frames that have some
centsSeriesOf(frames) ==
  LET hasCents(frame) == ~IsNull(frame.cents)
      kept == SelectSeq(frames, hasCents)
  IN  [ i \in 1 .. Len(kept) |-> Val(kept[i].cents) ]

RECURSIVE sumRange(_, _, _)
\* the values at lo .. hi summed, by halves
sumRange(values, lo, hi) ==
  IF lo > hi THEN 0
  ELSE IF lo = hi THEN values[lo]
  ELSE sumRange(values, lo, (lo + hi) \div 2) + sumRange(values, (lo + hi) \div 2 + 1, hi)

\* reduce((sum, value) => sum + value, 0)
sumOf(values) == sumRange(values, 1, Len(values))

\* the loop body with no dead zone: every sample has a sign
crossingStepOfAll(state, value, n, total) ==
  LET centered == n * value - total
      sign == IF centered > 0 THEN 1 ELSE -1
  IN  [ prevSign |-> sign,
        crossings |-> state.crossings
                        + (IF state.prevSign # 0 /\ sign # state.prevSign THEN 1 ELSE 0) ]

\* lines 1141-1147, the loop body on one sample: a sample in the dead zone is skipped,
\* another one counts when its sign is not the sign before, and leaves its sign
crossingStep(state, value, n, total) ==
  LET centered == n * value - total
      sign == IF centered > 0 THEN 1 ELSE -1
  IN  IF centered < 2 * n /\ -centered < 2 * n THEN state
      ELSE [ prevSign |-> sign,
             crossings |-> state.crossings
                             + (IF state.prevSign # 0 /\ sign # state.prevSign THEN 1 ELSE 0) ]

RECURSIVE crossingWalk(_, _, _, _, _, _)
\* line 1140: the loop over the samples at lo .. hi from state, the first half of the
\* samples and, from the state they leave, the second (the test has the first half
\* evaluated before the second is entered; a count is never negative)
crossingWalk(series, lo, hi, n, total, state) ==
  IF lo > hi THEN state
  ELSE IF lo = hi THEN crossingStep(state, series[lo], n, total)
  ELSE LET firstHalf == crossingWalk(series, lo, (lo + hi) \div 2, n, total, state)
       IN  IF firstHalf.crossings < 0 THEN firstHalf
           ELSE crossingWalk(series, (lo + hi) \div 2 + 1, hi, n, total, firstHalf)

\* lines 1137-1148: let crossings = 0, let prevSign = 0, and the loop
countCrossings(series, n, total, prevSign) ==
  crossingWalk(series, 1, Len(series), n, total,
               [prevSign |-> prevSign, crossings |-> 0]).crossings

\* lines 1124-1128, times n^2: the variance, which is the mean of the squares less the
\* square of the mean
squaredDeviations(series) ==
  LET n == Len(series)
      total == sumOf(series)
  IN  n * sumOf([ i \in 1 .. n |-> series[i] * series[i] ]) - total * total

\* Math.sqrt, rounded down
floorSqrt(x) == CHOOSE r \in 0 .. x : r * r <= x /\ x < (r + 1) * (r + 1)

\* any span taken as a divisor
spanAccepted(duration) == TRUE

\* line 1151: if (duration <= 0) return null
spanUsable(duration) == duration > 0

\* vibrato detected on rate and depth alone
detectsOnRateAndDepth(crossings, duration, deviations, n) ==
  /\ 100 * crossings >= 3 * 2 * duration
  /\ 100 * crossings <= 8 * 2 * duration
  /\ deviations >= 36 * n * n

\* line 1155: rate >= 3 && rate <= 8 && depth >= 6 && crossings >= 4, with
\* rate = 100 * crossings / (2 * duration) and depth^2 = deviations / n^2
detectsVibrato(crossings, duration, deviations, n) ==
  /\ 100 * crossings >= 3 * 2 * duration
  /\ 100 * crossings <= 8 * 2 * duration
  /\ deviations >= 36 * n * n
  /\ crossings >= 4

\* the rate is kept as the fraction num / den of Hz, the depth in tenths of a cent
analyzeVibrato(frames) ==
  IF Len(frames) < 10 THEN None
  ELSE LET centsSeries == centsSeriesOf(frames)
           n == Len(centsSeries)
           crossings == countCrossings(centsSeries, n, sumOf(centsSeries), 0)
           duration == frames[Len(frames)].t - frames[1].t
           deviations == squaredDeviations(centsSeries)
       IN  IF n < 10 THEN None
           ELSE IF ~spanUsable(duration) THEN None
           ELSE Some([ rate |-> [num |-> 100 * crossings, den |-> 2 * duration],
                       depth |-> floorSqrt((100 * deviations) \div (n * n)),
                       hasVibrato |-> detectsVibrato(crossings, duration, deviations, n) ])

(***************************************************************************)
(* renderReview (src/src/main.ts:1638-1770) and the MediaRecorder's onstop *)
(* callback that runs it (src/src/main.ts:2125-2137).                      *)
(***************************************************************************)
\* lines 1640-1659 and 1705: the melody renderReview leaves
reviewedMelody(frames) ==
  IF Len(frames) = 0 THEN << >> ELSE buildMelodySequence(frames, MELODY_STEP_SECONDS)

\* lines 1661-1662: the frames with cents
centsFrames(frames) ==
  LET hasCents(frame) == ~IsNull(frame.cents)
  IN  SelectSeq(frames, hasCents)

\* lines 1665-1667: Math.round(clamp(100 - (centsStdDev / 25) * 100, 0, 100)), with
\* centsStdDev^2 = deviations / n^2: the score s has 100 - 4 * centsStdDev in
\* [s - 1/2, s + 1/2), cut off at 0 and 100
stabilityScoreOf(series) ==
  LET n == Len(series)
      deviations == squaredDeviations(series)
  IN  CHOOSE score \in 0 .. 100 :
        /\ score = 0 \/ 64 * deviations <= (201 - 2 * score) * (201 - 2 * score) * n * n
        /\ score = 100 \/ 64 * deviations > (199 - 2 * score) * (199 - 2 * score) * n * n

\* line 1669: avgConfidence < 0.3
lowAverageConfidence(frames) ==
  sumOf([ i \in 1 .. Len(frames) |-> frames[i].confidence ]) < 3000 * Len(frames)

\* the rules with the stability score looked at before the confidence
challengeStabilityFirst(validCount, lowConfidence, stabilityScore, vibrato) ==
  IF validCount < 10 THEN "insufficient"
  ELSE IF ~IsNull(stabilityScore) /\ Val(stabilityScore) < 60 THEN "lowStability"
  ELSE IF lowConfidence THEN "lowConfidence"
  ELSE IF ~IsNull(vibrato) /\ ~Val(vibrato).hasVibrato THEN "weakVibrato"
  ELSE IF ~IsNull(vibrato) /\ Val(vibrato).rate.num < 3 * Val(vibrato).rate.den
    THEN "slowVibrato"
  ELSE IF ~IsNull(vibrato) /\ Val(vibrato).rate.num > 8 * Val(vibrato).rate.den
    THEN "fastVibrato"
  ELSE "good"

\* lines 1687-1700: the message picked for reviewChallenge
challengeOf(validCount, lowConfidence, stabilityScore, vibrato) ==
  IF validCount < 10 THEN "insufficient"
  ELSE IF lowConfidence THEN "lowConfidence"
  ELSE IF ~IsNull(stabilityScore) /\ Val(stabilityScore) < 60 THEN "lowStability"
  ELSE IF ~IsNull(vibrato) /\ ~Val(vibrato).hasVibrato THEN "weakVibrato"
  ELSE IF ~IsNull(vibrato) /\ Val(vibrato).rate.num < 3 * Val(vibrato).rate.den
    THEN "slowVibrato"
  ELSE IF ~IsNull(vibrato) /\ Val(vibrato).rate.num > 8 * Val(vibrato).rate.den
    THEN "fastVibrato"
  ELSE "good"

\* lines 1638-1705: what renderReview shows and leaves for the recording frames; on an
\* empty recording every text is '-', here the challenge "none"
reviewOf(frames) ==
  IF Len(frames) = 0
    THEN [challenge |-> "none", stabilityScore |-> None, vibrato |-> None,
          melody |-> reviewedMelody(frames)]
    ELSE LET valid == centsFrames(frames)
             centsSeries == [ i \in 1 .. Len(valid) |-> Val(valid[i].cents) ]
             stabilityScore == IF Len(centsSeries) > 0
                                 THEN Some(stabilityScoreOf(centsSeries)) ELSE None
             vibrato == analyzeVibrato(valid)
         IN  [challenge |-> challengeOf(Len(valid), lowAverageConfidence(frames),
                                        stabilityScore, vibrato),
              stabilityScore |-> stabilityScore,
              vibrato |-> vibrato,
              melody |-> reviewedMelody(frames)]

\* the stop event of a MediaRecorder is dispatched: onstop runs renderReview
MediaRecorderStop ==
  /\ Len(stopEvents) > 0
  /\ stopEvents' = Tail(stopEvents)
  /\ melodySequence' = reviewedMelody(recordedFrames)
  /\ recordedFrames' = sortCopy(recordedFrames).buffer
  /\ UNCHANGED << sessionVars, smoothedFrequency, lastConfidence, targetMidi, engineVars,
                  tuningVars, isRecording, recordFrameCounter, shown, runVars, sessions,
                  batchVars >>

(***************************************************************************)
(* Calls of the batch functions on a buffer of their own.                  *)
(***************************************************************************)
\* a frame of a buffer
BatchFrame(t, frequency, midi, confidence, cents) ==
  [ t |-> t, frequency |-> frequency, midi |-> midi, confidence |-> confidence,
    cents |-> cents,
    note |-> IF IsNull(midi) THEN None ELSE Some(midiToNote(Val(midi))) ]

\* frames of the short buffers: C4 and D4 sung with confidence 0.9 at 0, 0.01 and 0.03 s,
\* frames with a frequency (A3, B3) and no midi, and a C4 of confidence 0.26
FrameInputs ==
  { BatchFrame(0, Some(262), Some(60), 9000, Some(0)),
    BatchFrame(0, Some(294), Some(62), 9000, Some(0)),
    BatchFrame(1, Some(262), Some(60), 9000, Some(0)),
    BatchFrame(1, Some(294), Some(62), 9000, Some(0)),
    BatchFrame(3, Some(294), Some(62), 9000, Some(0)),
    BatchFrame(0, Some(220), None, 9000, None),
    BatchFrame(1, Some(247), None, 9000, None),
    BatchFrame(3, Some(262), Some(60), 2600, Some(0)) }

\* steps the short buffers are quantized with
StepInputs == {1, 2}

\* the short buffers, in every order
ShortBuffers == UNION { [1 .. n -> FrameInputs] : n \in 0 .. MaxBatchLen }

\* a recording of one second, a frame every 0.01 s: C4 for the first half, E4 for the
\* second, confidence 0.9
ScenarioFrames ==
  [ i \in 1 .. 100 |->
      IF i <= 50 THEN BatchFrame(i - 1, Some(262), Some(60), 9000, Some(0))
      ELSE BatchFrame(i - 1, Some(330), Some(64), 9000, Some(0)) ]

RECURSIVE totalDuration(_)
\* the durations of a melody, summed
totalDuration(events) ==
  IF events = << >> THEN 0 ELSE Head(events).duration + totalDuration(Tail(events))

\* a frame with no pitch, as recordFrame pushes it on a tick without a note
UnpitchedFrame(t) == BatchFrame(t, None, None, 0, None)

\* a frame sounding midi: its frequency is midiToFrequency(midi); withMidi tells whether
\* the frame carries the midi as well
SoundingFrame(t, midi, withMidi) ==
  BatchFrame(t, Some(midiToFrequency(midi)), IF withMidi THEN Some(midi) ELSE None, 9000,
             IF withMidi THEN Some(0) ELSE None)

\* the melodies that are rendered into frames: A3, C4 and rests, each event lasting one
\* or two steps, no two adjacent events of the same midi
MelodyInputs(stepSeconds) ==
  LET eventInputs == [midi : {None, Some(57), Some(60)},
                      duration : {stepSeconds, 2 * stepSeconds}]
      melodies == UNION { [1 .. n -> eventInputs] : n \in 0 .. MaxMelodyEvents }
  IN  { events \in melodies :
          \A i \in 1 .. Len(events) - 1 : events[i].midi # events[i + 1].midi }

\* the event of a melody that sounds at time t
eventAt(events, t) ==
  events[CHOOSE i \in 1 .. Len(events) :
           /\ totalDuration(SubSeq(events, 1, i - 1)) <= t
           /\ t < totalDuration(SubSeq(events, 1, i))]

\* the frame stream of a melody: one frame every spacing from 0 to the end of the
\* melody, rests as frames with no pitch
framesOfMelody(events, spacing, withMidi) ==
  [ k \in 1 .. totalDuration(events) \div spacing |->
      IF IsNull(eventAt(events, (k - 1) * spacing).midi)
        THEN UnpitchedFrame((k - 1) * spacing)
        ELSE SoundingFrame((k - 1) * spacing, Val(eventAt(events, (k - 1) * spacing).midi),
                           withMidi) ]

\* the step of the melodies and the spacings of their frames: two frames a bucket, or one
RoundTripStep == 2
RoundTripSpacings == {1, 2}

\* a recording of twelve frames, one every 0.07 s, of a C4 that swings 20 cents above
\* and below the target, two frames on each side
VibratoFrames ==
  [ i \in 1 .. 12 |->
      BatchFrame(7 * (i - 1), Some(262), Some(60), 9000,
                 Some(IF ((i - 1) \div 2) % 2 = 0 THEN 20 ELSE -20)) ]

\* recordings of twelve frames of a C4 whose cents follow a wave: the frames are spacing
\* apart, the cents are amplitude times the wave, the frames have the given confidence,
\* and with gaps every third frame is one without a pitch
WaveFrames(wave, amplitude, spacing, confidence, gaps) ==
  [ i \in 1 .. 12 |->
      IF gaps /\ i % 3 = 0
        THEN UnpitchedFrame(spacing * (i - 1))
        ELSE BatchFrame(spacing * (i - 1), Some(262), Some(60), confidence,
                        Some(amplitude * wave[((i - 1) % Len(wave)) + 1])) ]

\* waves: a swing every frame, every two frames, every three frames, a swing through
\* the target, and a swing that stays sharp for two frames in three
WaveInputs ==
  { << 1, -1 >>, << 1, 1, -1, -1 >>, << 1, 1, 1, -1, -1, -1 >>, << 1, 0, -1, 0 >>,
    << 1, 1, -1 >> }
\* swings of 1, 2, 8 and 20 cents
AmplitudeInputs == {1, 2, 8, 20}
\* frames at one instant, and 0.02, 0.04, 0.07 and 0.1 s apart
SpacingInputs == {0, 2, 4, 7, 10}
\* confidences 0.2 and 0.9
WaveConfidences == {2000, 9000}

WaveBuffers ==
  { WaveFrames(wave, amplitude, spacing, confidence, gaps) :
      wave \in WaveInputs, amplitude \in AmplitudeInputs, spacing \in SpacingInputs,
      confidence \in WaveConfidences, gaps \in BOOLEAN }

\* the inputs of the batch functions
BatchInputs ==
  [frames : ShortBuffers, step : StepInputs, melody : {None}]
    \cup { [frames |-> ScenarioFrames, step |-> MELODY_STEP_SECONDS, melody |-> None],
           [frames |-> VibratoFrames, step |-> MELODY_STEP_SECONDS, melody |-> None] }
    \cup [frames : WaveBuffers, step : {MELODY_STEP_SECONDS}, melody : {None}]
    \cup { [ frames |-> framesOfMelody(events, spacing, withMidi), step |-> RoundTripStep,
              melody |-> Some(events) ] :
             events \in MelodyInputs(RoundTripStep), spacing \in RoundTripSpacings,
             withMidi \in BOOLEAN }

\* batchCall before any call
NoCall == [fn |-> "none", again |-> FALSE, result |-> << >>, minConfidence |-> 0]

\* a call of the batch function fn that returned result
BatchCallOf(fn, result) ==
  /\ batchCall' = [ fn |-> fn, again |-> batchCall.fn = fn, result |-> result,
                    minConfidence |-> minConfidence ]
  /\ UNCHANGED << sessionVars, smoothedFrequency, lastConfidence, targetMidi, engineVars,
                  tuningVars, recorderVars, shown, runVars, sessions, reviewVars,
                  quantizer, estimateVars, playVars >>

\* buildMelodySequence(batchFrames, batchStep)
BuildMelodySequenceCall ==
  /\ BatchCallOf("buildMelodySequence", buildMelodySequence(batchFrames, batchStep))
  /\ batchFrames' = sortCopy(batchFrames).buffer
  /\ UNCHANGED << batchStep, batchMelody >>

\* buildKaraokePoints(batchFrames): filter and map make the array that is sorted
BuildKaraokePointsCall ==
  /\ BatchCallOf("buildKaraokePoints", buildKaraokePoints(batchFrames))
  /\ UNCHANGED << batchFrames, batchStep, batchMelody >>

\* analyzeVibrato(batchFrames)
AnalyzeVibratoCall ==
  /\ BatchCallOf("analyzeVibrato", analyzeVibrato(batchFrames))
  /\ UNCHANGED << batchFrames, batchStep, batchMelody >>

\* renderReview() on a recording whose frames are batchFrames
RenderReviewCall ==
  /\ BatchCallOf("renderReview", reviewOf(batchFrames))
  /\ batchFrames' = sortCopy(batchFrames).buffer
  /\ UNCHANGED << batchStep, batchMelody >>

\* frames of the lane buffers: C4, C#4 and D4 at 0, 0.25 and 0.51 s
LaneFrameInputs ==
  { BatchFrame(t, Some(midiToFrequency(midi)), Some(midi), 9000, Some(0)) :
      t \in {0, 25, 51}, midi \in {60, 61, 62} }

\* the lane buffers, in every order
LaneBuffers == UNION { [1 .. n -> LaneFrameInputs] : n \in 0 .. MaxBatchLen }

\* viewports of the lane: the first instant, and the first second
ViewportInputs == { [startSec |-> 0, endSec |-> 0], [startSec |-> 0, endSec |-> 100] }

\* renderKaraokeBar() on a recording whose frames are batchFrames, the lane scrolled to
\* a viewport
RenderKaraokeBarCall ==
  /\ \E viewport \in ViewportInputs :
       BatchCallOf("renderKaraokeBar", lanePath(batchFrames, viewport))
  /\ UNCHANGED << batchFrames, batchStep, batchMelody >>

(***************************************************************************)
(* buildMelodySequence (src/src/main.ts:1160-1219) taken one iteration of  *)
(* its for loop at a time, on the buffer batchFrames with the step         *)
(* batchStep.  The function has no throw statement.                        *)
(***************************************************************************)
\* no run of the function
QuantizerIdle == [status |-> "idle", t |-> 0, index |-> 0, events |-> << >>, result |-> << >>]

\* the function has returned result
QuantizerReturned(result) ==
  [status |-> "returned", t |-> 0, index |-> 0, events |-> << >>, result |-> result]

\* lines 1172-1176 with the index kept from one bucket to the next (0-based, line 1167):
\* how many frames the while loop takes before it meets one at or after bucketEnd
framesTaken(sorted, index, bucketEnd) ==
  CHOOSE n \in 0 .. Len(sorted) - index :
    /\ \A i \in index + 1 .. index + n : sorted[i].t < bucketEnd
    /\ index + n = Len(sorted) \/ sorted[index + n + 1].t >= bucketEnd

\* lines 1161-1167: the call, up to the loop
QuantizerEnter ==
  /\ quantizer.status = "idle"
  /\ quantizer' =
       IF Len(batchFrames) = 0 THEN QuantizerReturned(<< >>)
       ELSE IF sortedFrames(batchFrames)[Len(batchFrames)].t <= 0 THEN QuantizerReturned(<< >>)
       ELSE [status |-> "looping", t |-> 0, index |-> 0, events |-> << >>, result |-> << >>]
  /\ UNCHANGED << sessionVars, smoothedFrequency, lastConfidence, targetMidi, engineVars,
                  tuningVars, recorderVars, shown, runVars, sessions, reviewVars,
                  batchFrames, batchStep, batchMelody, batchCall, estimateVars, playVars >>

\* lines 1169-1206: the loop condition holds and the body runs once
QuantizerIterate ==
  /\ quantizer.status = "looping"
  /\ Len(quantizer.events) < MaxIterations
  /\ LET sorted == sortedFrames(batchFrames)
         duration == sorted[Len(sorted)].t
         taken == framesTaken(sorted, quantizer.index, quantizer.t + batchStep)
         bucket == SubSeq(sorted, quantizer.index + 1, quantizer.index + taken)
     IN  /\ quantizer.t <= duration
         /\ quantizer' = [quantizer EXCEPT
                            !.t = @ + batchStep,
                            !.index = @ + taken,
                            !.events = Append(@, [midi |-> bucketMidi(bucket),
                                                  duration |-> batchStep])]
  /\ UNCHANGED << sessionVars, smoothedFrequency, lastConfidence, targetMidi, engineVars,
                  tuningVars, recorderVars, shown, runVars, sessions, reviewVars,
                  batchFrames, batchStep, batchMelody, batchCall, estimateVars, playVars >>

\* lines 1169 and 1208-1218: the loop condition fails; the events are compressed and
\* returned
QuantizerReturn ==
  /\ quantizer.status = "looping"
  /\ quantizer.t > sortedFrames(batchFrames)[Len(batchFrames)].t
  /\ quantizer' = QuantizerReturned(compressEvents(<< >>, quantizer.events))
  /\ UNCHANGED << sessionVars, smoothedFrequency, lastConfidence, targetMidi, engineVars,
                  tuningVars, recorderVars, shown, runVars, sessions, reviewVars,
                  batchFrames, batchStep, batchMelody, batchCall, estimateVars, playVars >>

\* steps handed to the function by a caller: two valid ones, zero and a negative one
LoopStepInputs == {-1, 0, 1, 2}

(***************************************************************************)
(* autoCorrelate (src/src/main.ts:1013-1058).  Samples are integers; the   *)
(* deviations from the mean are kept times size, so correlations and the   *)
(* variance are kept times size * size.  A frequency is kept as the        *)
(* fraction num / den.                                                     *)
(***************************************************************************)
\* lines 1015-1019 and 1023, 1041-1042: buffer[i] - mean, times size
centeredSamples(buffer) ==
  LET size == Len(buffer)
      total == sumOf(buffer)
  IN  [ i \in 1 .. size |-> size * buffer[i] - total ]

\* lines 1038-1044: the correlation at a lag
correlationAt(centered, lag) ==
  sumOf([ i \in 1 .. Len(centered) - lag |-> centered[i] * centered[i + lag] ])

\* a scan that lets a later lag of the same correlation replace the best one
betterLagOrTie(best, lag, correlation) ==
  IF correlation >= best.bestCorrelation
    THEN [bestLag |-> lag, bestCorrelation |-> correlation]
    ELSE best

\* a scan that keeps the highest correlation without the lag that has it
betterCorrelation(best, lag, correlation) ==
  IF correlation > best.bestCorrelation
    THEN [bestLag |-> best.bestLag, bestCorrelation |-> correlation]
    ELSE best

\* lines 1046-1049: the best lag so far, after the correlation at a lag
betterLag(best, lag, correlation) ==
  IF correlation > best.bestCorrelation
    THEN [bestLag |-> lag, bestCorrelation |-> correlation]
    ELSE best

\* lines 1037-1050: the scan of the lags from lag to maxLag
RECURSIVE scanLags(_, _, _, _)
scanLags(centered, lag, maxLag, best) ==
  IF lag > maxLag THEN best
  ELSE scanLags(centered, lag + 1, maxLag,
                betterLag(best, lag, correlationAt(centered, lag)))

\* line 1031: the first lag of the scan
minLagOf(rate) == IF rate \div MAX_FREQUENCY > 1 THEN rate \div MAX_FREQUENCY ELSE 1

\* a scan that goes to the end of the buffer whatever the sample rate
maxLagOfSize(size, rate) == size - 1

\* line 1032: the last lag of the scan
maxLagOf(size, rate) ==
  IF rate \div MIN_FREQUENCY < size - 1 THEN rate \div MIN_FREQUENCY ELSE size - 1

\* lines 1013-1058; variance < 1e-7 is, for a variance kept times size * size in whole
\* numbers, variance <= (size * size - 1) \div 10000000
autoCorrelate(buffer, rate) ==
  LET size == Len(buffer)
      centered == centeredSamples(buffer)
      variance == sumOf([ i \in 1 .. size |-> centered[i] * centered[i] ])
      best == scanLags(centered, minLagOf(rate), maxLagOf(size, rate),
                       [bestLag |-> -1, bestCorrelation |-> 0])
      confidence == clamp((10000 * best.bestCorrelation) \div variance, 0, 10000)
  IN  IF variance <= (size * size - 1) \div 10000000
        THEN [frequency |-> None, confidence |-> 0]
      ELSE IF best.bestLag <= 0 THEN [frequency |-> None, confidence |-> confidence]
      ELSE [frequency |-> Some([num |-> rate, den |-> best.bestLag]),
            confidence |-> confidence]

\* line 1619: autoCorrelate(floatData, sampleRate)
AutoCorrelateCall ==
  /\ ~IsNull(floatData)
  /\ BatchCallOf("autoCorrelate", autoCorrelate(floatData, sampleRate))
  /\ UNCHANGED << batchFrames, batchStep, batchMelody >>

\* sample values: full swing down, silence, full swing up
SampleInputs == {-1, 0, 1}
\* buffers of MaxSamples samples
SampleBuffers == [1 .. MaxSamples -> SampleInputs]
\* sample rates that put the lags of MAX_FREQUENCY and of MIN_FREQUENCY at different
\* places of so short a buffer: lags 1 to 3, 2 to the last, 3 to the last; and a rate
\* that is no multiple of MAX_FREQUENCY
SampleRateInputs == {200, 2000, 2500, 3000}

(***************************************************************************)
(* Initial state: the module's top level has run (declarations at lines    *)
(* 395-451, syncInputTuningFromUI at line 2162, setControls(false) at      *)
(* line 2171).                                                             *)
(***************************************************************************)
InitStateAt(sensitivity, speed) ==
  /\ isRunning = FALSE
  /\ controlsDisabled = FALSE
  /\ initPending = "none"
  /\ animationId = None
  /\ mediaStream = FALSE
  /\ retryHidden = TRUE
  /\ smoothedFrequency = None
  /\ lastConfidence = 0
  /\ targetMidi = InitialTargetMidi
  /\ quantizer = QuantizerIdle
  /\ frequencyWindow = << >>
  /\ candidateMidi = None
  /\ candidateFrames = 0
  /\ stableMidi = None
  /\ silenceFrames = 0
  /\ lastStableMetrics = None
  /\ micSensitivity = sensitivity
  /\ trackingSpeed = speed
  /\ minRms = TunedMinRms(sensitivity)
  /\ minConfidence = TunedMinConfidence(sensitivity)
  /\ pitchSmoothing = TunedSmoothing(speed)
  /\ stabilityHoldFrames = TunedHoldFrames(speed)
  /\ isRecording = FALSE
  /\ recordedFrames = << >>
  /\ recordFrameCounter = 0
  /\ shown = [metrics |-> None, confidence |-> 0]
  /\ lastTick = NoTick
  /\ acceptRun = 0
  /\ rejectRun = 0
  /\ agreeMidi = None
  /\ agreeRun = 0
  /\ sessions = 0
  /\ melodySequence = << >>
  /\ stopEvents = << >>
  /\ batchCall = NoCall

\* the state after construction: the sliders at their defaults
InitState == InitStateAt(MIC_SENSITIVITY_DEFAULT, TRACKING_SPEED_DEFAULT)

\* lines 401 and 1619: no buffer of samples yet, and the rate that stands in for a missing
\* audio context
NoSamples ==
  /\ floatData = None
  /\ sampleRate = DEFAULT_SAMPLE_RATE

\* lines 417-433 and 497-511: nothing plays, nothing loads and no asynchronous run is
\* suspended
NoPlayback ==
  /\ isMelodyPlaying = FALSE
  /\ isToneLoading = FALSE
  /\ pianoInstrument = FALSE
  /\ forceMediaTone = FALSE
  /\ melodyStopTimer = FALSE
  /\ toneAudio = [onended |-> FALSE, state |-> "idle"]
  /\ melodyDisabled = FALSE
  /\ initRuns = << >>
  /\ playRuns = << >>
  /\ liveLoops = 0
  /\ liveStreams = 0

\* the live program: no buffer is handed to the batch functions from outside
Init ==
  /\ InitState
  /\ NoSamples
  /\ NoPlayback
  /\ batchFrames = << >>
  /\ batchStep = MELODY_STEP_SECONDS
  /\ batchMelody = None

(***************************************************************************)
(* Spec: the pitch tracker on a voice moving between two notes, with the   *)
(* tracking-speed slider and the capture sessions.                         *)
(***************************************************************************)
Frames == FramesOf(FrequencyInputs, ConfidenceInputs)
Tick == TickOn(Frames)
InitAudioSuccess == InitAudioSuccessOn(Frames)
TrackingSpeedInput == TrackingSpeedInputOn(SpeedInputs)

Next ==
  \/ Tick
  \/ StartButtonClick
  \/ RetryButtonClick
  \/ InitAudioNoContext
  \/ InitAudioError
  \/ InitAudioSuccess
  \/ TrackingSpeedInput

Spec == Init /\ [][Next]_vars

(***************************************************************************)
(* SpecApp: the sliders, the target select and the sessions on a voice     *)
(* holding one note.                                                       *)
(***************************************************************************)
AppFrames == FramesOf(AppFrequencyInputs, AppConfidenceInputs)
AppTick == TickOn(AppFrames)
AppInitAudioSuccess == InitAudioSuccessOn(AppFrames)
MicSensitivityInput == MicSensitivityInputOn(SensitivityInputs)
TargetSelectChange == TargetSelectChangeOn(TargetInputs)

NextApp ==
  \/ TrackingSpeedInput
  \/ AppTick
  \/ StartButtonClick
  \/ RetryButtonClick
  \/ InitAudioNoContext
  \/ InitAudioError
  \/ AppInitAudioSuccess
  \/ MicSensitivityInput
  \/ TargetSelectChange

SpecApp == Init /\ [][NextApp]_vars

(***************************************************************************)
(* SpecRec: the frame recorder (record button) and the sessions, on a      *)
(* voice holding one note.                                                 *)
(***************************************************************************)
NextRec ==
  \/ AppTick
  \/ StartButtonClick
  \/ InitAudioNoContext
  \/ InitAudioError
  \/ AppInitAudioSuccess
  \/ RecordButtonClick
  \/ MediaRecorderStop

SpecRec == Init /\ [][NextRec]_vars

(***************************************************************************)
(* SpecBatch: the batch functions called on frame buffers, between moves   *)
(* of the microphone-sensitivity slider.                                   *)
(***************************************************************************)
InitBatch ==
  /\ InitState
  /\ NoSamples
  /\ NoPlayback
  /\ \E input \in BatchInputs :
       /\ batchFrames = input.frames
       /\ batchStep = input.step
       /\ batchMelody = input.melody

NextBatch ==
  \/ BuildMelodySequenceCall
  \/ BuildKaraokePointsCall
  \/ AnalyzeVibratoCall
  \/ RenderReviewCall
  \/ MicSensitivityInput

SpecBatch == InitBatch /\ [][NextBatch]_vars

(***************************************************************************)
(* SpecLane: the karaoke lane drawn for frame buffers, between moves of    *)
(* the microphone-sensitivity slider.                                      *)
(***************************************************************************)
InitLane ==
  /\ InitState
  /\ NoSamples
  /\ NoPlayback
  /\ batchFrames \in LaneBuffers
  /\ batchStep = MELODY_STEP_SECONDS
  /\ batchMelody = None

NextLane ==
  \/ BuildKaraokePointsCall
  \/ RenderKaraokeBarCall
  \/ MicSensitivityInput

SpecLane == InitLane /\ [][NextLane]_vars

(***************************************************************************)
(* SpecLoop: buildMelodySequence run iteration by iteration on the short   *)
(* buffers, with steps of every sign.                                      *)
(***************************************************************************)
InitLoop ==
  /\ InitState
  /\ NoSamples
  /\ NoPlayback
  /\ batchFrames \in ShortBuffers
  /\ batchStep \in LoopStepInputs
  /\ batchMelody = None

NextLoop ==
  \/ QuantizerEnter
  \/ QuantizerIterate
  \/ QuantizerReturn

SpecLoop == InitLoop /\ [][NextLoop]_vars

(***************************************************************************)
(* SpecNotes: the stability engine on a voice that leaps between two far   *)
(* notes, at every hold the tracking-speed slider gives.                   *)
(***************************************************************************)
\* loud frames in which autoCorrelate finds one of the two notes
NoteFrames ==
  { fr \in FramesOf(NoteFrequencyInputs, AppConfidenceInputs) :
      fr.rms = 5000 /\ ~IsNull(fr.estimate.frequency) }
NoteTick == TickWithin(NoteFrames, MaxNoteRun, 1, MaxFrames)
NoteInitAudioSuccess == InitAudioSuccessOn(NoteFrames)

\* the tracking-speed slider was moved before the session starts
InitNotes ==
  /\ \E speed \in NoteSpeedInputs : InitStateAt(MIC_SENSITIVITY_DEFAULT, speed)
  /\ NoSamples
  /\ NoPlayback
  /\ batchFrames = << >>
  /\ batchStep = MELODY_STEP_SECONDS
  /\ batchMelody = None

\* the tracking-speed slider is moved to its fast end during the session
NoteSpeedInput == TrackingSpeedInputOn({100})

NextNotes ==
  \/ NoteTick
  \/ StartButtonClick
  \/ NoteInitAudioSuccess
  \/ NoteSpeedInput

SpecNotes == InitNotes /\ [][NextNotes]_vars

(***************************************************************************)
(* SpecTape: one capture session in which recordings of several frames are *)
(* made, on a voice holding one note.                                      *)
(***************************************************************************)
TapeTick == TickWithin(AppFrames, MaxAcceptRun, 2, MaxTapeFrames)

NextTape ==
  \/ TapeTick
  \/ AppInitAudioSuccess
  \/ RecordButtonClick

SpecTape == Init /\ [][NextTape]_vars

(***************************************************************************)
(* The controls, the capture session and the playback as the asynchronous  *)
(* functions leave them: every function below is the source function of    *)
(* the same name run on a snapshot s of the program's variables, up to its *)
(* next await.  The playback mode is 'piano'; the browser has getUserMedia *)
(* and MediaRecorder.  What the analysis loop computes is followed in the  *)
(* specifications above; here a loop is its pending callback only.         *)
(***************************************************************************)
\* the variables the functions below read and write
Snapshot ==
  [ isRunning |-> isRunning, controlsDisabled |-> controlsDisabled,
    animationId |-> animationId, mediaStream |-> mediaStream, retryHidden |-> retryHidden,
    smoothedFrequency |-> smoothedFrequency, isRecording |-> isRecording,
    sessions |-> sessions, melodySequence |-> melodySequence, stopEvents |-> stopEvents,
    shown |-> shown, isMelodyPlaying |-> isMelodyPlaying, isToneLoading |-> isToneLoading,
    pianoInstrument |-> pianoInstrument, forceMediaTone |-> forceMediaTone,
    melodyStopTimer |-> melodyStopTimer, toneAudio |-> toneAudio,
    melodyDisabled |-> melodyDisabled, initRuns |-> initRuns, playRuns |-> playRuns,
    liveLoops |-> liveLoops, liveStreams |-> liveStreams ]

\* the variables no function below writes
analysisVars ==
  << initPending, lastConfidence, targetMidi, engineVars, tuningVars, recordedFrames,
     recordFrameCounter, runVars, bufferVars >>

\* the program's variables become the snapshot s
Becomes(s) ==
  /\ isRunning' = s.isRunning
  /\ controlsDisabled' = s.controlsDisabled
  /\ animationId' = s.animationId
  /\ mediaStream' = s.mediaStream
  /\ retryHidden' = s.retryHidden
  /\ smoothedFrequency' = s.smoothedFrequency
  /\ isRecording' = s.isRecording
  /\ sessions' = s.sessions
  /\ melodySequence' = s.melodySequence
  /\ stopEvents' = s.stopEvents
  /\ shown' = s.shown
  /\ isMelodyPlaying' = s.isMelodyPlaying
  /\ isToneLoading' = s.isToneLoading
  /\ pianoInstrument' = s.pianoInstrument
  /\ forceMediaTone' = s.forceMediaTone
  /\ melodyStopTimer' = s.melodyStopTimer
  /\ toneAudio' = s.toneAudio
  /\ melodyDisabled' = s.melodyDisabled
  /\ initRuns' = s.initRuns
  /\ playRuns' = s.playRuns
  /\ liveLoops' = s.liveLoops
  /\ liveStreams' = s.liveStreams
  /\ UNCHANGED analysisVars

\* a sequence of suspended runs without its i-th
withoutRun(runs, i) == [ k \in 1 .. Len(runs) - 1 |-> IF k < i THEN runs[k] ELSE runs[k + 1] ]

\* line 539
hasPlayableMelody(melody) == \E i \in 1 .. Len(melody) : ~IsNull(melody[i].midi)

\* lines 481-494: the ended callback is dropped and the element paused
stopToneAudio(s) == [s EXCEPT !.toneAudio = [onended |-> FALSE, state |-> "idle"]]

\* setStatus, line 501: the retry button shows in the error state only
setStatus(s, state) == [s EXCEPT !.retryHidden = (state # "error")]

\* lines 579-589, in the piano playback mode
updateMelodyControls(s) == [s EXCEPT !.melodyDisabled = s.isRecording \/ s.isToneLoading]

\* lines 591-606
setControls(s, isWorking) == updateMelodyControls([s EXCEPT !.controlsDisabled = isWorking])

\* lines 608-620: the callback animationId names is cancelled, the tracks of mediaStream
\* are stopped; the analyser goes with the stream
stopStream(s) ==
  [s EXCEPT !.liveLoops = IF IsNull(s.animationId) THEN @ ELSE @ - 1,
            !.animationId = None,
            !.liveStreams = IF s.mediaStream THEN @ - 1 ELSE @,
            !.mediaStream = FALSE]

\* lines 622-633: the notes of the instrument stop and the tone audio element is reset
stopReferenceTone(s) == stopToneAudio(s)

\* lines 1925-1946
stopMelodyPlayback(s) ==
  [stopToneAudio(s) EXCEPT !.melodyStopTimer = FALSE, !.isMelodyPlaying = FALSE]

\* lines 995-1011 up to the await of audio.play()
playSamplesViaMedia(s, onEnded) ==
  [stopToneAudio(s) EXCEPT !.toneAudio = [onended |-> onEnded, state |-> "starting"]]

\* lines 1948-1967 up to the await of audio.play()
playMelodyViaMediaTone(s) ==
  playSamplesViaMedia(
    [stopMelodyPlayback(stopReferenceTone(s)) EXCEPT !.isMelodyPlaying = TRUE], TRUE)

\* lines 2150-2158: the stop event of the MediaRecorder is queued
stopRecording(s) ==
  IF ~s.isRecording THEN s
  ELSE setControls([s EXCEPT !.stopEvents = Append(@, TRUE), !.isRecording = FALSE], FALSE)

\* lines 1770-1784
handleError(s) == setControls(setStatus([s EXCEPT !.isRunning = FALSE], "error"), FALSE)

\* lines 1843-1861
stopAudioFrom(s) ==
  LET stopped == stopMelodyPlayback(stopReferenceTone(stopStream(stopRecording(s))))
  IN  setControls(
        setStatus([stopped EXCEPT !.isRunning = FALSE, !.smoothedFrequency = None,
                                  !.shown = [metrics |-> None, confidence |-> 0]], "idle"),
        FALSE)

\* lines 788-813: loadPianoSoundfont called by fn, up to the await of the soundfont.
\* While a load is under way its pianoPromise is handed out (line 790) and the run is
\* suspended at "join"; otherwise the run starts the load and is suspended at "load"
loadPianoSoundfontBegin(s, fn) ==
  IF s.isToneLoading
    THEN [s EXCEPT !.playRuns = Append(@, [fn |-> fn, at |-> "join"])]
    ELSE setControls([s EXCEPT !.isToneLoading = TRUE,
                               !.playRuns = Append(@, [fn |-> fn, at |-> "load"])], FALSE)

\* lines 813-831: the soundfont has loaded, or has failed to
loadPianoSoundfontEnd(s, loaded) ==
  setControls([s EXCEPT !.pianoInstrument = loaded,
                        !.forceMediaTone = @ \/ ~loaded,
                        !.isToneLoading = FALSE], FALSE)

\* lines 1786-1796: initAudio called by caller, up to the await of the microphone
initAudioFrom(s, caller) ==
  LET working == stopStream(setControls(setStatus(s, "working"), TRUE))
  IN  [working EXCEPT !.smoothedFrequency = None,
                      !.sessions = @ + 1,
                      !.initRuns = Append(@, caller)]

\* lines 2093-2147: startRecording once the session runs
startRecordingRest(s) ==
  IF ~s.mediaStream THEN setStatus(s, "error")
  ELSE updateMelodyControls([s EXCEPT !.melodySequence = << >>,
                                      !.stopEvents = [ i \in 1 .. Len(@) |-> FALSE ],
                                      !.isRecording = TRUE])

\* lines 2082-2091: startRecording up to the await of initAudio
startRecording(s) ==
  LET quiet == IF s.isMelodyPlaying THEN stopMelodyPlayback(s) ELSE s
  IN  IF s.isRecording THEN s
      ELSE IF ~quiet.isRunning THEN initAudioFrom(quiet, "record")
      ELSE startRecordingRest(quiet)

\* lines 2019-2067: playMelody after its awaits, on the AudioContext path
playMelodyRest(s) ==
  [stopMelodyPlayback(stopReferenceTone(s)) EXCEPT !.isMelodyPlaying = TRUE,
                                                   !.melodyStopTimer = TRUE]

\* lines 1900-1922: playReferenceTone after its awaits
playReferenceToneRest(s) ==
  LET silent == stopReferenceTone(s)
  IN  IF ~silent.pianoInstrument /\ silent.forceMediaTone
        THEN playSamplesViaMedia(silent, FALSE)
        ELSE silent

\* the function fn goes on after its await of loadPianoSoundfont
resumeAfterLoad(s, fn) ==
  IF fn = "playMelody" THEN playMelodyRest(s)
  ELSE IF fn = "playReferenceTone" THEN playReferenceToneRest(s)
  ELSE s

RECURSIVE resumeJoined(_, _)
\* the runs that awaited the pianoPromise of a load go on, in the order they came
resumeJoined(s, joined) ==
  IF joined = << >> THEN s
  ELSE resumeJoined(resumeAfterLoad(s, Head(joined).fn), Tail(joined))

(***************************************************************************)
(* SpecPlay: the clicks on the start, retry, record, tone and melody       *)
(* buttons, interleaved with the resumptions of the suspended runs of      *)
(* initAudio, playMelody, playReferenceTone and loadPianoSoundfont and     *)
(* with the events of the tone audio element, the stop timer, the          *)
(* MediaRecorder and the analysis loop.                                    *)
(***************************************************************************)
\* the melodies renderReview can leave: none, or the one note that was sung
ReviewedMelodies ==
  { << >>,
    reviewedMelody(<< BatchFrame(0, Some(262), Some(60), 9000, Some(0)),
                      BatchFrame(3, Some(262), Some(60), 9000, Some(0)) >>) }

\* startButton click (lines 2207-2213)
SessionStartClick ==
  /\ ~controlsDisabled
  /\ IF isRunning
       THEN StopInBounds /\ Becomes(stopAudioFrom(Snapshot))
       ELSE sessions < MaxSessions /\ Becomes(initAudioFrom(Snapshot, "button"))

\* retryButton click (lines 2215-2217)
SessionRetryClick ==
  /\ ~retryHidden
  /\ ~controlsDisabled
  /\ sessions < MaxSessions
  /\ Becomes(initAudioFrom(Snapshot, "button"))

\* recordButton click (lines 2267-2273)
SessionRecordClick ==
  /\ ~controlsDisabled
  /\ IF isRecording
       THEN StopInBounds /\ Becomes(stopRecording(Snapshot))
       ELSE /\ isRunning \/ sessions < MaxSessions
            /\ Becomes(startRecording(Snapshot))

\* a suspended initAudio resumes (lines 1798-1840): without an audio context, with an
\* error, or with the microphone stream; the startRecording that awaited it goes on
InitAudioResumes ==
  \E i \in 1 .. Len(initRuns) : \E outcome \in {"nocontext", "error", "stream"} :
    LET s == [Snapshot EXCEPT !.initRuns = withoutRun(@, i)]
        analysing == [s EXCEPT !.mediaStream = TRUE, !.liveStreams = @ + 1,
                               !.animationId = Some(0), !.liveLoops = @ + 1,
                               !.isRunning = TRUE]
        live == setControls(setStatus(analysing, "success"), FALSE)
        loading == IF ~live.pianoInstrument /\ ~live.isToneLoading /\ ~live.forceMediaTone
                     THEN loadPianoSoundfontBegin(live, "loadPianoSoundfont")
                     ELSE live
        started == IF initRuns[i] = "record" THEN startRecordingRest(loading) ELSE loading
    IN  CASE outcome = "nocontext" -> Becomes(setControls(setStatus(s, "error"), FALSE))
          [] outcome = "error" -> Becomes(handleError(s))
          [] outcome = "stream" -> /\ Len(started.playRuns) <= MaxPlayRuns
                                   /\ Becomes(started)

\* a callback of requestAnimationFrame runs renderWaveform (lines 1589-1590, 1635): the
\* loop goes on while there is an analyser and ends when there is none
LoopCallback ==
  /\ liveLoops > 0
  /\ Becomes(IF mediaStream THEN [Snapshot EXCEPT !.animationId = Some(0)]
             ELSE [Snapshot EXCEPT !.liveLoops = @ - 1])

\* the stop event of a MediaRecorder (lines 2125-2137): renderReview leaves the melody of
\* what was sung (lines 1640-1710)
RecorderStopEvent ==
  /\ Len(stopEvents) > 0
  /\ \E melody \in ReviewedMelodies :
       LET reviewed == updateMelodyControls([Snapshot EXCEPT !.stopEvents = Tail(@),
                                                            !.melodySequence = melody])
       IN  Becomes(IF ~hasPlayableMelody(melody) /\ reviewed.isMelodyPlaying
                     THEN stopMelodyPlayback(reviewed)
                     ELSE reviewed)

\* playMelodyButton click (lines 2237-2239): playMelody up to its first await (lines
\* 1969-2001)
MelodyButtonClick ==
  /\ ~melodyDisabled
  /\ IF isMelodyPlaying THEN Becomes(stopMelodyPlayback(Snapshot))
     ELSE IF isRecording THEN UNCHANGED vars
     ELSE IF ~hasPlayableMelody(melodySequence) THEN Becomes(setStatus(Snapshot, "idle"))
     ELSE /\ Len(playRuns) < MaxPlayRuns
          /\ Becomes([Snapshot EXCEPT
                        !.playRuns = Append(@, [fn |-> "playMelody", at |-> "context"])])

\* playToneButton or playOctaveButton click (lines 2229-2235): playReferenceTone up to its
\* first await
ToneButtonClick ==
  /\ ~controlsDisabled
  /\ Len(playRuns) < MaxPlayRuns
  /\ Becomes([Snapshot EXCEPT
                !.playRuns = Append(@, [fn |-> "playReferenceTone", at |-> "context"])])

\* the playback context has resumed and the unlock was tried (lines 1875-1898 and
\* 2001-2017): the run goes to the media tone, or to the instrument, or loads it
PlaybackResumes ==
  \E i \in 1 .. Len(playRuns) : \E unlocked \in BOOLEAN :
    /\ playRuns[i].at = "context"
    /\ LET s == [Snapshot EXCEPT !.playRuns = withoutRun(@, i),
                                 !.forceMediaTone = @ \/ ~unlocked]
           fn == playRuns[i].fn
       IN  Becomes(IF fn = "playMelody"
                     THEN IF s.forceMediaTone THEN playMelodyViaMediaTone(s)
                          ELSE IF s.pianoInstrument THEN playMelodyRest(s)
                          ELSE loadPianoSoundfontBegin(s, fn)
                     ELSE IF s.forceMediaTone THEN playSamplesViaMedia(s, FALSE)
                          ELSE IF s.pianoInstrument THEN playReferenceToneRest(s)
                          ELSE loadPianoSoundfontBegin(s, fn))

\* the soundfont has loaded or failed (lines 813-831), and the function that awaited
\* loadPianoSoundfont goes on; so do the runs that awaited its pianoPromise when it has
\* loaded, and they end with its rejection when it has failed
SoundfontSettles ==
  \E i \in 1 .. Len(playRuns) : \E loaded \in BOOLEAN :
    /\ playRuns[i].at = "load"
    /\ LET isJoined(run) == run.at = "join"
           isOther(run) == run.at # "join"
           others == withoutRun(playRuns, i)
           s == loadPianoSoundfontEnd(
                  [Snapshot EXCEPT !.playRuns = SelectSeq(others, isOther)], loaded)
           resumed == resumeAfterLoad(s, playRuns[i].fn)
       IN  Becomes(IF loaded THEN resumeJoined(resumed, SelectSeq(others, isJoined))
                   ELSE resumed)

\* audio.play() resolves, or rejects and the rejection is caught (lines 1002-1010)
AudioPlaySettles ==
  /\ toneAudio.state = "starting"
  /\ \E played \in BOOLEAN :
       Becomes([Snapshot EXCEPT !.toneAudio.state = IF played THEN "playing" ELSE "idle"])

\* the tone audio element plays to its end: its ended callback runs (lines 1959-1966)
AudioEnded ==
  /\ toneAudio.state = "playing"
  /\ Becomes([Snapshot EXCEPT !.toneAudio.state = "idle",
                              !.isMelodyPlaying = IF toneAudio.onended THEN FALSE ELSE @])

\* the timeout set at lines 2066-2068 fires
MelodyStopTimerFires ==
  /\ melodyStopTimer
  /\ Becomes(stopMelodyPlayback(Snapshot))

NextPlay ==
  \/ SessionStartClick
  \/ SessionRetryClick
  \/ SessionRecordClick
  \/ InitAudioResumes
  \/ LoopCallback
  \/ RecorderStopEvent
  \/ MelodyButtonClick
  \/ ToneButtonClick
  \/ PlaybackResumes
  \/ SoundfontSettles
  \/ AudioPlaySettles
  \/ AudioEnded
  \/ MelodyStopTimerFires

SpecPlay == Init /\ [][NextPlay]_vars

(***************************************************************************)
(* SpecTuning: the two sliders, over every position of the tracking-speed  *)
(* slider.                                                                 *)
(***************************************************************************)
AnyTrackingSpeedInput == TrackingSpeedInputOn(SliderPositions)

NextTuning ==
  \/ AnyTrackingSpeedInput
  \/ MicSensitivityInput

SpecTuning == Init /\ [][NextTuning]_vars

(***************************************************************************)
(* SpecEstimate: autoCorrelate on buffers of samples.                      *)
(***************************************************************************)
InitEstimate ==
  /\ InitState
  /\ batchFrames = << >>
  /\ batchStep = MELODY_STEP_SECONDS
  /\ batchMelody = None
  /\ floatData \in SampleBuffers
  /\ sampleRate \in SampleRateInputs
  /\ NoPlayback

NextEstimate == AutoCorrelateCall

SpecEstimate == InitEstimate /\ [][NextEstimate]_vars

(***************************************************************************)
(* Properties.  A step is an accepted tick when it lengthens the run of    *)
(* accepted ticks, a rejected tick when it lengthens the run of rejected   *)
(* ticks (RMS-gated ticks included).                                       *)
(***************************************************************************)
AcceptedTick == acceptRun' = acceptRun + 1
RejectedTick == rejectRun' = rejectRun + 1
GatedTick == RejectedTick /\ lastTick'.gate = "gated"

\* C1: stableMidi takes a new non-null value M only on an accepted tick at which the
\* window median has rounded to M on at least stabilityHoldFrames accepted ticks in a
\* row, no rejected tick in between.
NoSingleFrameFlicker ==
  [][ (stableMidi' # stableMidi /\ ~IsNull(stableMidi'))
        => /\ AcceptedTick
           /\ agreeMidi' = stableMidi'
           /\ agreeRun' >= stabilityHoldFrames ]_vars

\* C1 witness: the lock has just been earned by A#3, heard for exactly the hold.
LockEarnedByHold ==
  /\ lastTick.gate = "accepted"
  /\ stableMidi = Some(58)
  /\ agreeMidi = Some(58)
  /\ agreeRun = stabilityHoldFrames

\* C2: on a rejected tick that is at most the STABILITY_HANGOVER_FRAMES-th of its run,
\* deriveStableMetrics returns the note the previous tick returned, unchanged; on a
\* rejected tick that is at least the STABILITY_SILENCE_FRAMES-th of its run it
\* returns null.
HangoverReemits ==
  [][ RejectedTick
        => /\ (rejectRun' <= STABILITY_HANGOVER_FRAMES /\ ~IsNull(lastTick.result)
                 => lastTick'.result = lastTick.result)
           /\ (rejectRun' >= STABILITY_SILENCE_FRAMES => IsNull(lastTick'.result)) ]_vars

\* C2 witness: the last tick of the hangover still returned the note.
HangoverLastTick ==
  /\ lastTick.gate \in {"gated", "rejected"}
  /\ rejectRun = STABILITY_HANGOVER_FRAMES
  /\ ~IsNull(lastTick.result)

\* the accepted tick just taken fed a frame of another note after stabilityHoldFrames - 1
\* frames in a row of the note a
OutlierAfter(a) ==
  LET n == Len(frequencyWindow')
  IN  /\ AcceptedTick
      /\ n >= stabilityHoldFrames
      /\ \A i \in (n - stabilityHoldFrames + 1) .. (n - 1) :
           RoundMidi(frequencyWindow'[i]) = a
      /\ RoundMidi(frequencyWindow'[n]) # a

\* C3 as stated: after stabilityHoldFrames - 1 accepted frames in a row of a note A and
\* one accepted frame of another note, stableMidi is A.
OutlierLeavesA ==
  [][ \A a \in 55 .. 62 : OutlierAfter(a) => stableMidi' = Some(a) ]_vars

\* C3 amended: after stabilityHoldFrames - 1 accepted frames in a row of a note A and
\* one accepted frame of another note, stableMidi is A whenever A was the locked note
\* and the running candidate before the last frame.
OutlierLeavesLockedA ==
  [][ \A a \in 55 .. 62 :
        OutlierAfter(a) /\ stableMidi = Some(a) /\ agreeMidi = Some(a)
          => stableMidi' = Some(a) ]_vars

\* C3 witness: A3 is locked, the frames before the last were A3 for the hold less one,
\* and the A#3 frame just fed moved the median to A#3 without moving the lock.
OutlierFedToLockedA ==
  /\ lastTick.gate = "accepted"
  /\ stableMidi = Some(57)
  /\ Len(frequencyWindow) >= stabilityHoldFrames
  /\ \A i \in (Len(frequencyWindow) - stabilityHoldFrames + 1) .. (Len(frequencyWindow) - 1) :
       RoundMidi(frequencyWindow[i]) = 57
  /\ RoundMidi(frequencyWindow[Len(frequencyWindow)]) = 58
  /\ agreeMidi = Some(58)

\* C4 as stated: on a rejected tick (RMS-gated or not) among the first
\* STABILITY_HANGOVER_FRAMES of its run, with a note locked, the note handed to
\* updatePitchDisplay and recordFrame is the locked note, not null.
DropoutKeepsNote ==
  (/\ lastTick.gate \in {"gated", "rejected"}
   /\ rejectRun >= 1
   /\ rejectRun <= STABILITY_HANGOVER_FRAMES
   /\ ~IsNull(stableMidi))
    => /\ ~IsNull(lastTick.note)
       /\ Val(lastTick.note).midi = Val(stableMidi)

\* C5: stableMidi goes to null only on a rejected tick that is at least the
\* STABILITY_SILENCE_FRAMES-th of its run, every such tick leaves it null, a rejected
\* tick earlier in its run leaves it as it was, and the first accepted tick after a
\* run of rejected ticks that left a lock emits that lock's midi.
LockClearedBySilenceOnly ==
  [][ /\ (~IsNull(stableMidi) /\ IsNull(stableMidi')
            => RejectedTick /\ rejectRun' >= STABILITY_SILENCE_FRAMES)
      /\ (RejectedTick /\ rejectRun' >= STABILITY_SILENCE_FRAMES => IsNull(stableMidi'))
      /\ (RejectedTick /\ rejectRun' < STABILITY_SILENCE_FRAMES => stableMidi' = stableMidi)
      /\ (AcceptedTick /\ rejectRun >= 1 /\ ~IsNull(stableMidi)
            => /\ ~IsNull(lastTick'.result)
               /\ Val(lastTick'.result).midi = Val(stableMidi)) ]_vars

\* C5 witness: the first accepted tick after a dropout emitted the surviving lock.
LockSurvivedDropout ==
  /\ lastTick.gate = "accepted"
  /\ acceptRun = 1
  /\ ~IsNull(stableMidi)
  /\ ~IsNull(lastTick.result)
  /\ Val(lastTick.result).midi = Val(stableMidi)

\* C6: an RMS-gated tick hands (null, 0) to the engine, which counts it as a rejected
\* tick, displays no note with confidence 0 and, when the recorder samples it, appends
\* a frame with null pitch fields and confidence 0.
GatedFrameIsSilence ==
  [][ GatedTick
        => /\ IsNull(lastTick'.fedFrequency)
           /\ lastTick'.fedConfidence = 0
           /\ silenceFrames' = silenceFrames + 1
           /\ frequencyWindow' = << >>
           /\ lastConfidence' = 0
           /\ shown' = [metrics |-> None, confidence |-> 0]
           /\ (isRecording /\ isSampled(recordFrameCounter + 1)
                 => /\ Len(recordedFrames') = Len(recordedFrames) + 1
                    /\ LET frame == recordedFrames'[Len(recordedFrames')]
                       IN  /\ IsNull(frame.frequency)
                           /\ IsNull(frame.midi)
                           /\ IsNull(frame.cents)
                           /\ IsNull(frame.note)
                           /\ frame.confidence = 0) ]_vars

\* C6 witness: a gated frame autoCorrelate would have found a pitch in was recorded
\* while the engine still returned the locked note.
GatedPitchedFrameRecorded ==
  /\ lastTick.gate = "gated"
  /\ lastTick.pitched
  /\ lastTick.appended
  /\ ~IsNull(lastTick.result)
  /\ Len(recordedFrames) >= 1
  /\ IsNull(recordedFrames[Len(recordedFrames)].midi)

\* C7 as stated: every rejected tick (RMS-gated ones included) leaves smoothedFrequency
\* as it was, and an accepted tick sets it to the frame's frequency if it was null and
\* to smoothed + pitchSmoothing * (frequency - smoothed) otherwise.
SmootherKeptOnRejection ==
  [][ /\ (RejectedTick => smoothedFrequency' = smoothedFrequency)
      /\ (AcceptedTick
            => \E f \in FrequencyInputs :
                 smoothedFrequency' =
                   IF IsNull(smoothedFrequency) THEN Some(f)
                   ELSE Some(Val(smoothedFrequency)
                             + RoundDiv(pitchSmoothing * (f - Val(smoothedFrequency)),
                                        10000))) ]_vars

\* C8 as stated: the note a tick returns carries the cents of its frequency against the
\* target selected at that tick.
CentsAgainstSelectedTarget ==
  [][ (AcceptedTick \/ RejectedTick) /\ ~IsNull(lastTick'.result)
        => Val(lastTick'.result).centsFromTarget =
             centsFromTargetOf(Val(lastTick'.result).frequency, targetMidi) ]_vars

\* C9: after an accepted tick with a note locked, the emitted midi is stableMidi and the
\* emitted frequency is the window median when the median rounds to stableMidi, and
\* midiToFrequency(stableMidi) when it rounds to another note.
EmittedNoteIsTheLock ==
  (lastTick.gate = "accepted" /\ ~IsNull(stableMidi))
    => /\ ~IsNull(lastTick.result)
       /\ Val(lastTick.result).midi = Val(stableMidi)
       /\ Val(lastTick.result).frequency =
            IF agreeMidi = stableMidi THEN Val(median(frequencyWindow))
            ELSE midiToFrequency(Val(stableMidi))

\* C9 witness: A3 is locked while the median has moved to A#3, and the emitted note is
\* A3 at its exact frequency.
LockHeldAgainstCandidate ==
  /\ lastTick.gate = "accepted"
  /\ stableMidi = Some(57)
  /\ agreeMidi = Some(58)
  /\ Val(lastTick.result).frequency = 220

\* C10 as stated implies: the first tick of a capture session runs on a fresh engine, so
\* it returns no note, a hold taking at least two accepted ticks.
NewSessionEmitsNoOldNote == lastTick.first => IsNull(lastTick.result)


(***************************************************************************)
(* Properties of the batch functions, on the last call recorded in         *)
(* batchCall.                                                              *)
(***************************************************************************)
\* the timestamp of the latest frame of a non-empty buffer
lastTimestamp(frames) ==
  CHOOSE t \in { frames[i].t : i \in 1 .. Len(frames) } :
    \A i \in 1 .. Len(frames) : frames[i].t <= t

\* buildMelodySequence was the last call, on the buffer and under the minConfidence in force
MelodyBuilt ==
  batchCall.fn = "buildMelodySequence" /\ batchCall.minConfidence = minConfidence

bucketMidiOf(k) ==
  bucketMidi(bucketAt(sortedFrames(batchFrames), (k - 1) * batchStep, batchStep))

\* the buckets that lie before the i-th event
bucketsBefore(events, i) == totalDuration(SubSeq(events, 1, i - 1)) \div batchStep

\* C12: no two adjacent events of the returned sequence have the same midi (null
\* included), and every event lasts a positive whole number of steps: as many as the
\* consecutive buckets of its midi that it merged.
CompressionInvariant ==
  MelodyBuilt =>
    LET events == batchCall.result
    IN  /\ \A i \in 1 .. Len(events) - 1 : events[i].midi # events[i + 1].midi
        /\ \A i \in 1 .. Len(events) :
             /\ events[i].duration > 0
             /\ events[i].duration % batchStep = 0
             /\ \A k \in bucketsBefore(events, i) + 1 ..
                         bucketsBefore(events, i) + events[i].duration \div batchStep :
                  bucketMidiOf(k) = events[i].midi

\* C12 witness: two empty buckets between two notes were merged into one null event
TwoNullBucketsMerged ==
  /\ MelodyBuilt
  /\ Len(batchCall.result) = 3
  /\ ~IsNull(batchCall.result[1].midi)
  /\ IsNull(batchCall.result[2].midi)
  /\ batchCall.result[2].duration = 2 * batchStep
  /\ ~IsNull(batchCall.result[3].midi)


\* C13: the recording of 50 frames of midi 60 at 0.00..0.49 s and 50 frames of midi 64
\* at 0.50..0.99 s, confidence 0.9, quantized with step 0.1 s, gives exactly two events,
\* midi 60 then midi 64, of 0.5 s each.
ScenarioGivesTwoHalves ==
  (MelodyBuilt /\ batchFrames = ScenarioFrames /\ batchStep = MELODY_STEP_SECONDS)
    => batchCall.result = << [midi |-> Some(60), duration |-> 50],
                             [midi |-> Some(64), duration |-> 50] >>

\* C13 witness: the scenario has been quantized
ScenarioQuantized ==
  /\ MelodyBuilt
  /\ batchFrames = ScenarioFrames
  /\ batchStep = MELODY_STEP_SECONDS
  /\ Len(batchCall.result) = 2


votesOf(k) ==
  LET valid == validFrames(bucketAt(sortedFrames(batchFrames), (k - 1) * batchStep,
                                    batchStep))
      carriesMidi(frame) == ~IsNull(frame.midi)
      voters == SelectSeq(valid, carriesMidi)
  IN  [ i \in 1 .. Len(voters) |-> Val(voters[i].midi) ]

\* how often a midi occurs among votes, and where it occurs first
tally(votes, midi) == Cardinality({ i \in 1 .. Len(votes) : votes[i] = midi })
firstVote(votes, midi) ==
  CHOOSE i \in 1 .. Len(votes) :
    votes[i] = midi /\ \A j \in 1 .. i - 1 : votes[j] # midi

\* C15: in each bucket with a valid frame that carries a midi, the bucket's midi is the
\* one with the highest count among the valid frames, and among the midis tied for the
\* highest count the one that occurs first in time order.
MajorityWithFirstSeenTie ==
  MelodyBuilt =>
    \A k \in 1 .. totalDuration(batchCall.result) \div batchStep :
      LET votes == votesOf(k)
          midi == eventAt(batchCall.result, (k - 1) * batchStep).midi
      IN  Len(votes) > 0 =>
            /\ ~IsNull(midi)
            /\ \E i \in 1 .. Len(votes) : votes[i] = Val(midi)
            /\ \A j \in 1 .. Len(votes) :
                 \/ tally(votes, Val(midi)) > tally(votes, votes[j])
                 \/ /\ tally(votes, Val(midi)) = tally(votes, votes[j])
                    /\ firstVote(votes, Val(midi)) <= firstVote(votes, votes[j])

\* C15 witness: D4 before C4 in one bucket, one frame each: the bucket is D4
TieWentToTheEarlierNote ==
  /\ MelodyBuilt
  /\ batchStep = 2
  /\ Len(batchFrames) = 2
  /\ batchFrames[1].t = 1 /\ batchFrames[1].midi = Some(60) /\ batchFrames[1].confidence = 9000
  /\ batchFrames[2].t = 0 /\ batchFrames[2].midi = Some(62)
  /\ batchCall.result = << [midi |-> Some(62), duration |-> 2] >>


\* the buffer with its frames in the order p
permuted(frames, p) == [ i \in 1 .. Len(frames) |-> frames[p[i]] ]

\* p keeps the frames of equal timestamp in the order they have in the buffer
keepsEqualTimesInOrder(frames, p) ==
  \A i, j \in 1 .. Len(frames) :
    (i < j /\ frames[p[i]].t = frames[p[j]].t) => p[i] < p[j]

\* every frame of the buffer is walked into exactly one bucket, the one whose
\* [start, end) holds its timestamp
FramesPartitioned ==
  LET sorted == sortedFrames(batchFrames)
      buckets == [ k \in 1 .. bucketCount(lastTimestamp(batchFrames), batchStep) |->
                     bucketAt(sorted, (k - 1) * batchStep, batchStep) ]
  IN  /\ sumOf([ k \in 1 .. Len(buckets) |-> Len(buckets[k]) ]) = Len(batchFrames)
      /\ \A k \in 1 .. Len(buckets) : \A i \in 1 .. Len(buckets[k]) :
           /\ (k - 1) * batchStep <= buckets[k][i].t
           /\ buckets[k][i].t < k * batchStep

\* the short buffers, whose orders are all tried
ShortBufferQuantized ==
  MelodyBuilt /\ Len(batchFrames) > 0 /\ Len(batchFrames) <= MaxBatchLen

validOf(k) ==
  validFrames(bucketAt(sortedFrames(batchFrames), (k - 1) * batchStep, batchStep))

\* C17: a bucket whose valid frames carry no midi but a frequency gets the midi nearest
\* to the mean of their frequencies, round(hzToMidi(mean)); a bucket with no valid frame
\* gets null.
MeanFrequencyFallback ==
  MelodyBuilt =>
    \A k \in 1 .. totalDuration(batchCall.result) \div batchStep :
      LET valid == validOf(k)
          midi == eventAt(batchCall.result, (k - 1) * batchStep).midi
          mean == RoundDiv(sumOf([ i \in 1 .. Len(valid) |-> Val(valid[i].frequency) ]),
                           Len(valid))
      IN  /\ Len(valid) = 0 => IsNull(midi)
          /\ (Len(valid) > 0 /\ Len(votesOf(k)) = 0) => midi = Some(RoundMidi(mean))

\* C17 witness: a bucket with an A3 and a B3 that carry no midi became an A#3, next to a
\* bucket with no valid frame
MeanOfTwoFrequenciesTaken ==
  /\ MelodyBuilt
  /\ batchStep = 2
  /\ Len(validOf(1)) = 2
  /\ Len(votesOf(1)) = 0
  /\ validOf(1)[1].frequency # validOf(1)[2].frequency
  /\ Len(validOf(2)) = 0
  /\ batchCall.result = << [midi |-> Some(58), duration |-> 2],
                           [midi |-> None, duration |-> 2] >>


(***************************************************************************)
(* Properties of the recorder and of the review.  A step is a run of       *)
(* renderReview when it takes a stop event off the queue, and the start of *)
(* a recording when it turns isRecording on.                               *)
(***************************************************************************)
ReviewStep == Len(stopEvents') < Len(stopEvents)
RecordingStarts == ~isRecording /\ isRecording'

\* C18 as stated: renderReview runs only while isRecording is false, whatever the order
\* of the record clicks and the onstop callbacks, and recordedFrames then is the buffer of
\* the recording that was just stopped.
ReviewOnlyAfterRecording ==
  [][ReviewStep => (~isRecording /\ Head(stopEvents))]_vars

\* the buffer after the step is the buffer before it with one frame appended
OneFrameAppended ==
  /\ Len(recordedFrames') = Len(recordedFrames) + 1
  /\ SubSeq(recordedFrames', 1, Len(recordedFrames)) = recordedFrames

CallStep ==
  \/ batchCall'.fn # batchCall.fn
  \/ batchCall'.again # batchCall.again
  \/ batchCall'.minConfidence # batchCall.minConfidence
RepeatStep == CallStep /\ batchCall'.again

\* C20 as stated: a batch function called again on the buffer returns what it returned
\* before, and every call leaves the buffer and its frames as they were.
RepeatedCallsAgree ==
  [][/\ CallStep => batchFrames' = batchFrames
     /\ RepeatStep => batchCall'.result = batchCall.result]_vars

\* C20 amended: every call leaves the buffer and its frames as they were, and a batch
\* function called again on the buffer returns what it returned before provided
\* minConfidence is what it was at the call before; analyzeVibrato does so whatever
\* minConfidence is.
RepeatedCallsAgreeUnderSameTuning ==
  [][/\ CallStep => batchFrames' = batchFrames
     /\ (/\ RepeatStep
         /\ \/ batchCall'.minConfidence = batchCall.minConfidence
            \/ batchCall'.fn = "analyzeVibrato")
          => batchCall'.result = batchCall.result]_vars

\* C20 witness: buildMelodySequence was called twice on a buffer that is not in time
\* order and has left it in that order
CalledTwiceOnUnsortedBuffer ==
  /\ batchCall.fn = "buildMelodySequence"
  /\ batchCall.again
  /\ Len(batchCall.result) = 2
  /\ Len(batchFrames) = 2
  /\ batchFrames[1].t > batchFrames[2].t


(***************************************************************************)
(* Properties of the quantizer's loop.                                     *)
(***************************************************************************)
\* C21: a run of buildMelodySequence with a step of zero or less ends in an error thrown
\* to the caller: it is never inside the loop and never returns a result.
NonPositiveStepIsAnError ==
  (batchStep <= 0 /\ quantizer.status # "idle") => quantizer.status = "thrown"


(***************************************************************************)
(* Properties of the review and of the vibrato analysis, on the last call  *)
(* recorded in batchCall.                                                  *)
(***************************************************************************)
\* the time from the first to the last of a sequence of frames, 0 when there is none
spanOf(frames) == IF Len(frames) = 0 THEN 0 ELSE frames[Len(frames)].t - frames[1].t

\* the last call was of fn
Called(fn) == batchCall.fn = fn

\* an empty buffer gives an empty melody and no karaoke point, and a call of
\* analyzeVibrato on fewer than 10 frames with cents, or on frames that span no time,
\* gives null
DegenerateCallsGiveDefaults ==
  /\ (Called("buildMelodySequence") /\ Len(batchFrames) = 0) => batchCall.result = << >>
  /\ (Called("buildKaraokePoints") /\ Len(batchFrames) = 0) => batchCall.result = << >>
  /\ (Called("renderReview") /\ Len(batchFrames) = 0) => batchCall.result.melody = << >>
  /\ (Called("analyzeVibrato") /\ Len(centsFrames(batchFrames)) < 10)
       => batchCall.result = None
  /\ (Called("analyzeVibrato") /\ spanOf(batchFrames) <= 0) => batchCall.result = None

midiDistance(a, b) == IF a.midi >= b.midi THEN a.midi - b.midi ELSE b.midi - a.midi

\* C23: of two consecutive points of the lane, the second starts a new segment exactly
\* when it comes more than the gap tolerance (LANE_GAP_BREAK_SECONDS) after the first or
\* lies more than the semitone tolerance (one semitone) from it.
BoundaryOnGapOrSemitones ==
  Called("renderKaraokeBar") =>
    \A i \in 2 .. Len(batchCall.result) :
      LET previous == batchCall.result[i - 1]
          point == batchCall.result[i]
      IN  (point.command = "M")
            <=> \/ point.t - previous.t > LANE_GAP_BREAK_SECONDS
                \/ midiDistance(point, previous) > 1

\* the segments of a path: for each 'M', where it starts and where it ends
segmentsOf(path) ==
  LET starts == { i \in 1 .. Len(path) : path[i].command = "M" }
      endOf(i) == CHOOSE j \in i .. Len(path) :
                    /\ \A k \in i + 1 .. j : path[k].command = "L"
                    /\ j = Len(path) \/ path[j + 1].command = "M"
  IN  { [start |-> path[i].t, end |-> path[endOf(i)].t] : i \in starts }

\* C24: the segments of the lane are ordered in time and do not overlap, each ends at or
\* after its start, and each is at least a minimum length long (a length above 0).
SegmentsOrderedAndLongEnough ==
  Called("renderKaraokeBar") =>
    LET segments == segmentsOf(batchCall.result)
    IN  /\ \A a, b \in segments : a = b \/ a.end < b.start \/ b.end < a.start
        /\ \A a \in segments : a.end >= a.start
        /\ \A a \in segments : a.end - a.start > 0


(***************************************************************************)
(* Properties of the karaoke points.                                       *)
(***************************************************************************)
\* buildKaraokePoints was the last call, under the minConfidence in force
PointsBuilt == Called("buildKaraokePoints") /\ batchCall.minConfidence = minConfidence

\* the frames of the buffer that qualify for a point
qualifies(frame) == ~IsNull(frame.midi) /\ frame.confidence >= minConfidence

\* C25: the points returned are exactly the frames with a midi and a confidence of at
\* least minConfidence, one point of the frame's t and midi for each such frame and no
\* other point, in the order of non-decreasing t whatever the order of the buffer.
PointsAreTheQualifyingFrames ==
  PointsBuilt =>
    LET points == batchCall.result
        places == { i \in 1 .. Len(batchFrames) : qualifies(batchFrames[i]) }
        pointOf(i) == [t |-> batchFrames[i].t, midi |-> Val(batchFrames[i].midi)]
    IN  /\ \A i, j \in 1 .. Len(points) : i < j => points[i].t <= points[j].t
        /\ Len(points) = Cardinality(places)
        /\ \A i \in places :
             Cardinality({ k \in 1 .. Len(points) : points[k] = pointOf(i) })
               = Cardinality({ j \in places : pointOf(j) = pointOf(i) })

\* C25 witness: a buffer of three frames that is not in time order and holds a frame
\* with a midi and too low a confidence gave two points
LowConfidenceFrameDropped ==
  /\ PointsBuilt
  /\ Len(batchFrames) = 3
  /\ batchFrames[1].t > batchFrames[2].t
  /\ \E i \in 1 .. 3 : ~IsNull(batchFrames[i].midi) /\ batchFrames[i].confidence < minConfidence
  /\ Len(batchCall.result) = 2
  /\ batchCall.result[1].t < batchCall.result[2].t


(***************************************************************************)
(* Properties of the review's feedback.                                    *)
(***************************************************************************)
\* the feedback categories, in the order of their rules; the last one has no rule
Categories ==
  << "insufficient", "lowConfidence", "lowStability", "weakVibrato", "slowVibrato",
     "fastVibrato", "good" >>

\* whether the rule of the i-th category matches the recording frames, given what the
\* review shows for them: fewer than 10 frames with cents, an average confidence below
\* 0.3, a stability score below 60, vibrato data without a detected vibrato, a rate below
\* 3 Hz, a rate above 8 Hz; the last category matches always
ruleMatches(i, frames, review) ==
  CASE i = 1 -> Len(centsFrames(frames)) < 10
    [] i = 2 -> sumOf([ k \in 1 .. Len(frames) |-> frames[k].confidence ]) < 3000 * Len(frames)
    [] i = 3 -> ~IsNull(review.stabilityScore) /\ Val(review.stabilityScore) < 60
    [] i = 4 -> ~IsNull(review.vibrato) /\ ~Val(review.vibrato).hasVibrato
    [] i = 5 -> /\ ~IsNull(review.vibrato)
                /\ Val(review.vibrato).rate.num < 3 * Val(review.vibrato).rate.den
    [] i = 6 -> /\ ~IsNull(review.vibrato)
                /\ Val(review.vibrato).rate.num > 8 * Val(review.vibrato).rate.den
    [] i = 7 -> TRUE

\* the category of the first rule that matches
firstMatch(frames, review) ==
  Categories[CHOOSE i \in 1 .. 7 :
               /\ ruleMatches(i, frames, review)
               /\ \A j \in 1 .. i - 1 : ~ruleMatches(j, frames, review)]

ReviewInputs == { input.frames : input \in BatchInputs }

\* C27: for each feedback category there is a recording whose review shows it.
EveryCategorySelectable ==
  \A i \in 1 .. 7 : \E frames \in ReviewInputs : reviewOf(frames).challenge = Categories[i]


(***************************************************************************)
(* Properties of analyzeVibrato.                                           *)
(***************************************************************************)
\* whether a cents value is at least 2 cents from the mean total / n of its series
outsideDeadZone(value, n, total) == n * value - total >= 2 * n \/ total - n * value >= 2 * n

\* the samples of a series of cents that are outside the dead zone around its mean
samplesOutside(series) ==
  LET n == Len(series)
      total == sumOf(series)
      Outside(value) == outsideDeadZone(value, n, total)
  IN  SelectSeq(series, Outside)

\* how often two successive samples outside the dead zone are on different sides of the
\* mean
signChanges(series) ==
  LET n == Len(series)
      total == sumOf(series)
      outside == samplesOutside(series)
  IN  Cardinality({ i \in 1 .. Len(outside) - 1 :
                      (n * outside[i] > total) # (n * outside[i + 1] > total) })

\* analyzeVibrato has been called and has returned vibrato data
VibratoAnalyzed == Called("analyzeVibrato") /\ ~IsNull(batchCall.result)

\* C28: the crossings analyzeVibrato counts are the sign changes of the deviation from
\* the mean between successive samples that are at least 2 cents from the mean; samples
\* closer to the mean are ignored.
CrossingsSkipTheDeadZone ==
  VibratoAnalyzed
    => Val(batchCall.result).rate.num = 100 * signChanges(centsSeriesOf(batchFrames))

\* C28 witness: vibrato data with crossings was returned for a recording some of whose
\* samples are inside the dead zone
DeadZoneSamplesSkipped ==
  /\ VibratoAnalyzed
  /\ Val(batchCall.result).rate.num > 0
  /\ Len(samplesOutside(centsSeriesOf(batchFrames))) < Len(centsSeriesOf(batchFrames))

\* whether the standard deviation of a series of cents is at least 6: the squared
\* deviations from the mean total / n, times n * n, against 36 * n, times n * n
depthAtLeastSix(series) ==
  LET n == Len(series)
      total == sumOf(series)
  IN  sumOf([ i \in 1 .. n |-> (n * series[i] - total) * (n * series[i] - total) ])
        >= 36 * n * n * n

\* C29: the rate analyzeVibrato returns is crossings / (2 * duration), with the time span
\* of the analysed frames as duration, and vibrato is detected exactly when that rate is
\* in [3, 8] Hz, the depth is at least 6 cents and there are at least 4 crossings.
VibratoDetectedExactlyWhen ==
  VibratoAnalyzed
    => LET crossings == signChanges(centsSeriesOf(batchFrames))
           duration == spanOf(batchFrames)
           vibrato == Val(batchCall.result)
       IN  /\ vibrato.rate = [num |-> 100 * crossings, den |-> 2 * duration]
           /\ vibrato.hasVibrato <=>
                /\ 100 * crossings >= 3 * 2 * duration
                /\ 100 * crossings <= 8 * 2 * duration
                /\ depthAtLeastSix(centsSeriesOf(batchFrames))
                /\ crossings >= 4

\* C29 witness: a vibrato was detected
VibratoDetected == VibratoAnalyzed /\ Val(batchCall.result).hasVibrato


(***************************************************************************)
(* Properties of autoCorrelate.                                            *)
(***************************************************************************)
\* the lags autoCorrelate scans in a buffer of size samples at a sample rate: from
\* floor(rate / MAX_FREQUENCY), at least 1, to floor(rate / MIN_FREQUENCY), at most
\* size - 1
scannedLags(size, rate) ==
  { lag \in 1 .. size - 1 : (lag + 1) * MAX_FREQUENCY > rate /\ lag * MIN_FREQUENCY <= rate }

\* the autocorrelation of a buffer at a lag, times size * size: the sum of the products
\* of the deviations from the mean, multiplied out
correlationOf(buffer, lag) ==
  LET size == Len(buffer)
      total == sumOf(buffer)
  IN  size * size * sumOf([ i \in 1 .. size - lag |-> buffer[i] * buffer[i + lag] ])
        - size * total * (sumOf(SubSeq(buffer, 1, size - lag))
                            + sumOf(SubSeq(buffer, lag + 1, size)))
        + (size - lag) * total * total

\* the scanned lags of strictly positive autocorrelation
positiveLags == 
  { lag \in scannedLags(Len(floatData), sampleRate) : correlationOf(floatData, lag) > 0 }

\* the lags of the highest strictly positive autocorrelation
highestLags ==
  { lag \in positiveLags :
      \A other \in positiveLags :
        correlationOf(floatData, other) <= correlationOf(floatData, lag) }

\* autoCorrelate has been called on floatData
Estimated == Called("autoCorrelate")

\* C30: autoCorrelate returns a frequency exactly when some scanned lag has a strictly
\* positive autocorrelation, and the frequency is the sample rate divided by the lowest
\* of the lags that have the highest autocorrelation.
HighestCorrelationLowestLag ==
  Estimated
    => IF positiveLags = {} THEN IsNull(batchCall.result.frequency)
       ELSE /\ ~IsNull(batchCall.result.frequency)
            /\ \E lag \in highestLags :
                 /\ \A other \in highestLags : lag <= other
                 /\ Val(batchCall.result.frequency).num * lag
                      = sampleRate * Val(batchCall.result.frequency).den

\* C30 witness: a frequency was returned for a buffer in which several lags share the
\* highest autocorrelation
TiedLagsEstimated ==
  /\ Estimated
  /\ ~IsNull(batchCall.result.frequency)
  /\ Cardinality(highestLags) > 1


\* a frequency was returned by the last call of autoCorrelate
FrequencyEstimated == Estimated /\ ~IsNull(batchCall.result.frequency)

\* C31 as stated: every frequency autoCorrelate returns is at least MIN_FREQUENCY and at
\* most MAX_FREQUENCY.
FrequencyWithinHardBounds ==
  FrequencyEstimated
    => LET frequency == Val(batchCall.result.frequency)
       IN  /\ frequency.num >= MIN_FREQUENCY * frequency.den
           /\ frequency.num <= MAX_FREQUENCY * frequency.den

\* C31 amended: every frequency autoCorrelate returns is at least MIN_FREQUENCY and at
\* most the sample rate divided by the first scanned lag, floor(sampleRate /
\* MAX_FREQUENCY) or 1 if that is less.
FrequencyWithinLagBounds ==
  FrequencyEstimated
    => LET frequency == Val(batchCall.result.frequency)
           firstLag == IF sampleRate >= 2 * MAX_FREQUENCY
                         THEN CHOOSE lag \in 1 .. sampleRate :
                                /\ lag * MAX_FREQUENCY <= sampleRate
                                /\ (lag + 1) * MAX_FREQUENCY > sampleRate
                         ELSE 1
       IN  /\ frequency.num >= MIN_FREQUENCY * frequency.den
           /\ frequency.num * firstLag <= sampleRate * frequency.den

\* C31 witness: a frequency above MAX_FREQUENCY was returned
FrequencyAboveMaximum ==
  /\ FrequencyEstimated
  /\ Val(batchCall.result.frequency).num > MAX_FREQUENCY * Val(batchCall.result.frequency).den

\* the variance of floatData is zero: all its samples are the same
constantFrame == \A i \in 1 .. Len(floatData) : floatData[i] = floatData[1]

\* C32: autoCorrelate returns no frequency and confidence 0 for a frame without variance,
\* and confidence 0 whenever it returns no frequency.
NoFrequencyNoConfidence ==
  Estimated
    => /\ constantFrame => batchCall.result = [frequency |-> None, confidence |-> 0]
       /\ IsNull(batchCall.result.frequency) => batchCall.result.confidence = 0

\* C32 witness: no frequency was returned for a frame that has variance
NoLagCorrelates ==
  /\ Estimated
  /\ ~constantFrame
  /\ IsNull(batchCall.result.frequency)


(***************************************************************************)
(* Properties of applyInputTuning.                                         *)
(***************************************************************************)
\* C38: at every position of the tracking-speed slider stabilityHoldFrames is a whole
\* number from 2 to 6, 6 at position 0, 4 at position 40 and 2 at position 100, and a
\* move of the slider to a higher position never makes it larger.
HoldFramesFromTwoToSix ==
  [][ /\ stabilityHoldFrames' \in 2 .. 6
      /\ trackingSpeed' = 0 => stabilityHoldFrames' = 6
      /\ trackingSpeed' = TRACKING_SPEED_DEFAULT => stabilityHoldFrames' = 4
      /\ trackingSpeed' = 100 => stabilityHoldFrames' = 2
      /\ trackingSpeed' >= trackingSpeed => stabilityHoldFrames' <= stabilityHoldFrames
      /\ trackingSpeed' <= trackingSpeed => stabilityHoldFrames' >= stabilityHoldFrames ]_vars

\* C38 witness: the slider is at its fastest position and the hold is two frames
FastestHoldIsTwo == trackingSpeed = 100 /\ stabilityHoldFrames = 2


(***************************************************************************)
(* Properties of the notes the stability engine locks.                     *)
(***************************************************************************)
\* the notes of the frequencies a window holds: a window holds only frequencies that were
\* fed to deriveStableMetrics on accepted ticks
notesOf(window) == { RoundMidi(window[i]) : i \in 1 .. Len(window) }

\* C34: a note that gets locked is the note of a frequency in the window, that is of a
\* frequency that was fed on an accepted tick; the note of the mean of the two middle
\* values of a window of even size is not locked unless a fed frequency has it.
LockedNotesWereFed ==
  [][ (~IsNull(stableMidi') /\ stableMidi' # stableMidi)
        => Val(stableMidi') \in notesOf(frequencyWindow') ]_vars

\* C34 witness: with a note locked, the engine's candidate is the note of the mean of the
\* two middle values of a window of even size that no frequency in the window has
PhantomCandidateNotLocked ==
  /\ ~IsNull(stableMidi)
  /\ ~IsNull(candidateMidi)
  /\ Len(frequencyWindow) % 2 = 0
  /\ Val(candidateMidi) \notin notesOf(frequencyWindow)
  /\ stableMidi # candidateMidi


(***************************************************************************)
(* Properties of the emitted notes and of the recorded frames.             *)
(***************************************************************************)
\* C37: the frequency of the note deriveStableMetrics returned on the last tick rounds
\* to the note's midi, on accepted ticks and on re-emissions alike, and the midi of
\* lastStableMetrics is stableMidi.
NoteFrequencyRoundsToItsMidi ==
  /\ ~IsNull(lastTick.result)
       => RoundMidi(Val(lastTick.result).frequency) = Val(lastTick.result).midi
  /\ ~IsNull(lastStableMetrics)
       => /\ RoundMidi(Val(lastStableMetrics).frequency) = Val(lastStableMetrics).midi
          /\ stableMidi = Some(Val(lastStableMetrics).midi)

\* C37 witness: a rejected tick re-emitted the held note
HeldNoteReEmitted ==
  /\ lastTick.gate = "rejected"
  /\ ~IsNull(lastTick.result)
  /\ ~IsNull(lastStableMetrics)

\* the four fields of a recorded frame that hold the note
noteFields(frame) == << frame.frequency, frame.midi, frame.cents, frame.note >>

\* C40: in every recorded frame frequency, midi, cents and note are all null or all
\* non-null; a frame appended on an RMS-gated tick has all four null and confidence 0;
\* timestamps never decrease in append order.
FramesWholeAndInOrder ==
  /\ \A i \in 1 .. Len(recordedFrames) :
       \/ \A k \in 1 .. 4 : IsNull(noteFields(recordedFrames[i])[k])
       \/ \A k \in 1 .. 4 : ~IsNull(noteFields(recordedFrames[i])[k])
  /\ (lastTick.gate = "gated" /\ lastTick.appended /\ Len(recordedFrames) > 0)
       => LET frame == recordedFrames[Len(recordedFrames)]
          IN  /\ \A k \in 1 .. 4 : IsNull(noteFields(frame)[k])
              /\ frame.confidence = 0
  /\ \A i \in 1 .. Len(recordedFrames) - 1 : recordedFrames[i].t <= recordedFrames[i + 1].t

\* C40 witness: a recording holds a frame with a note followed by a frame appended on an
\* RMS-gated tick
GatedFrameAfterNote ==
  /\ Len(recordedFrames) >= 2
  /\ ~IsNull(recordedFrames[Len(recordedFrames) - 1].midi)
  /\ lastTick.gate = "gated"
  /\ lastTick.appended


(***************************************************************************)
(* Properties of the controls, the capture session and the playback.       *)
(***************************************************************************)
\* C33: isRecording and isMelodyPlaying are never both true.
NeverRecordingWhilePlaying == ~(isRecording /\ isMelodyPlaying)

\* what would end a playing melody with no click: the stop timer, or the tone audio
\* element playing (or about to) with the melody's ended callback, or a run or an event
\* that is still to come
endsByItself ==
  \/ melodyStopTimer
  \/ toneAudio.onended /\ toneAudio.state \in {"starting", "playing"}
  \/ playRuns # << >>
  \/ initRuns # << >>
  \/ stopEvents # << >>

\* C35: melody playback always ends by itself: while isMelodyPlaying is true something is
\* pending that sets it to false without a click.
PlayingMelodyEndsByItself == isMelodyPlaying => endsByItself

\* C36: at most one analysis loop and one microphone stream are live, and the start,
\* retry and record buttons are disabled while an initAudio is pending.
OneLoopOneStream ==
  /\ liveLoops <= 1
  /\ liveStreams <= 1
  /\ initRuns # << >> => controlsDisabled

\* C39: isRecording implies isRunning.
RecordingImpliesRunning == isRecording => isRunning

=============================================================================
